---- MODULE Spec2Model ----
(***************************************************************************)
(* Model of the workflow execution engine (class Executor): the layered    *)
(* scheduler executeInParallel, the block dispatcher executeBlock, the     *)
(* input resolver, the router / evaluator / condition evaluators and the   *)
(* path gate isInChosenPath.                                               *)
(*                                                                         *)
(* A run is a sequence of layers.  StartLayer runs the synchronous part of *)
(* every dispatch of the layer (up to its first await on a provider or a   *)
(* tool), Complete settles one pending provider / tool call, FinishLayer   *)
(* is the continuation of Promise.all, ReturnSuccess is the exit of the    *)
(* while loop.  A rejection of Promise.all makes execute return at once,   *)
(* while the other dispatches of the layer stay in flight.                 *)
(***************************************************************************)
EXTENDS Integers, Sequences, FiniteSets, TLC

VARIABLES
  wf,                      \* the SerializedWorkflow given to the constructor
  pc,                      \* "idle" | "ready" | "awaiting" | "returned"
  inDegree,                \* Map<string, number>
  queue,                   \* string[]
  currentLayer,            \* executableBlocks of the layer being awaited
  inflight,                \* dispatches awaiting a provider / tool: id -> startedAt
  routerDecisions,         \* Map<string, string> (NoBlock = no entry)
  evaluatorDecisions,      \* Map<string, string>
  activeConditionalPaths,  \* Map<string, string> (NoCond = no entry)
  loopIterations,          \* Map<string, number>
  blockStates,             \* context.blockStates
  blockLogs,               \* context.blockLogs
  lastOutput,              \* lastOutput of executeInParallel
  result,                  \* the ExecutionResult returned by execute
  clock,                   \* number of Date() readings so far
  dispatches,              \* history: the dispatch attempts of the run, in order
  other,                   \* the other execute call on this Executor, if any
  inChosenPath,            \* the last call of isInChosenPath and what it returned
  agents,                  \* agent-builder store: Agent[]
  mcpServers,              \* agent-builder store: MCPServer[]
  selectedAgentId,         \* agent-builder store: string | null
  issued,                  \* the number of ids nanoid() has returned
  lastCall,                \* the last action called on the store
  chat                     \* the chat POST handler and its McpClient

vars == <<wf, pc, inDegree, queue, currentLayer, inflight, routerDecisions,
          evaluatorDecisions, activeConditionalPaths, loopIterations,
          blockStates, blockLogs, lastOutput, result, clock, dispatches, other,
          inChosenPath, agents, mcpServers, selectedAgentId, issued, lastCall,
          chat>>

\* the state outside the run of the Executor
aside == <<inChosenPath, agents, mcpServers, selectedAgentId, issued, lastCall, chat>>

\* the state of the agent-builder store
storeVars == <<agents, mcpServers, selectedAgentId, issued, lastCall>>

\* the state of the Executor and its runs
executorVars ==
  <<wf, pc, inDegree, queue, currentLayer, inflight, routerDecisions,
    evaluatorDecisions, activeConditionalPaths, loopIterations,
    blockStates, blockLogs, lastOutput, result, clock, dispatches, other>>

---------------------------------------------------------------------------
(* Bounds of the model *)

\* blockLogs and the dispatch history keep at most MaxLog entries; further
\* entries are dropped (the control flow is unaffected)
MaxLog == 12

\* the clock stops at MaxTime
MaxTime == 30

\* safety limit for loops
MAX_ITERATIONS == 2

---------------------------------------------------------------------------
(* Sequence helpers *)

Range(s) == {s[i] : i \in 1..Len(s)}

Contains(s, x) == \E i \in 1..Len(s) : s[i] = x

RECURSIVE SeqFilter(_, _)
\* s.filter(x => x \in keep), order kept
SeqFilter(s, keep) ==
  IF s = <<>> THEN <<>>
  ELSE IF Head(s) \in keep THEN <<Head(s)>> \o SeqFilter(Tail(s), keep)
       ELSE SeqFilter(Tail(s), keep)

Push(log, e) == IF Len(log) < MaxLog THEN Append(log, e) ELSE log

Tick(t) == IF t < MaxTime THEN t + 1 ELSE t

Saturated == Len(dispatches) >= MaxLog \/ Len(blockLogs) >= MaxLog \/ clock >= MaxTime

---------------------------------------------------------------------------
(* Data model: blocks, connections, loops, outputs *)

NoBlock == "none"
NoCond == "none"

\* an input that is not given (undefined); a given value v is <<v>>
Undefined == <<>>

\* a SerializedBlock: refs are the blocks named by the <id.path> references of
\* config.params, in their order of appearance, conditions the parsed config.params.conditions, toolKnown
\* whether getTool(config.tool) finds a tool, model and temperature the
\* params of these names (temperature in tenths)
Blk(id, type, enabled, refs, conditions, toolKnown) ==
  [id |-> id, type |-> type, enabled |-> enabled, refs |-> refs,
   conditions |-> conditions, toolKnown |-> toolKnown,
   model |-> Undefined, temperature |-> Undefined,
   param |-> Undefined, tool |-> "generic"]

ToolBlock(id) == Blk(id, "tool", TRUE, <<>>, <<>>, TRUE)
AgentBlock(id) == Blk(id, "agent", TRUE, <<>>, <<>>, TRUE)
RouterBlock(id) == Blk(id, "router", TRUE, <<>>, <<>>, TRUE)
EvaluatorBlock(id) == Blk(id, "evaluator", TRUE, <<>>, <<>>, TRUE)
ConditionBlock(id, conditions) == Blk(id, "condition", TRUE, <<>>, conditions, TRUE)
Disabled(b) == [b EXCEPT !.enabled = FALSE]
Referencing(b, refs) == [b EXCEPT !.refs = refs]
WithInputs(b, model, temperature) ==
  [b EXCEPT !.model = model, !.temperature = temperature]
\* the block with the parameter `key` set to exactly '<source.response.value>'
WithParam(b, key, source) ==
  [b EXCEPT !.refs = Append(@, source),
            !.param = <<[key |-> key, source |-> source]>>]
\* a tool block whose tool returns text
TextBlock(id) == [ToolBlock(id) EXCEPT !.tool = "text"]
\* a block of type function
FunctionBlock(id) == [ToolBlock(id) EXCEPT !.type = "function"]

\* one entry of a condition block's conditions list
Cond(id, title, value) == [id |-> id, title |-> title, value |-> value]

\* a connection; sourceHandle is <<>> when absent, <<"condition-", id>> for a
\* condition branch, <<"source">> for any other handle
Conn(s, t) == [source |-> s, target |-> t, sourceHandle |-> <<>>, condition |-> FALSE]
BranchConn(s, t, c) ==
  [source |-> s, target |-> t, sourceHandle |-> <<"condition-", c>>, condition |-> FALSE]
MarkedConn(cn) == [cn EXCEPT !.condition = TRUE]

\* a workflow: blocks and connections are arrays, loops maps loop ids (in
\* insertion order: loopIds) to node arrays
Workflow(name, blocks, connections, loopIds, loops) ==
  [name |-> name, blocks |-> blocks, connections |-> connections,
   loopIds |-> loopIds, loops |-> loops, initialBlockStates |-> <<>>]

NoLoops == [l \in {} |-> <<>>]

BlockIds(w) == {w.blocks[i].id : i \in 1..Len(w.blocks)}

\* every id a Map of the run may be keyed by
NodeIds(w) ==
  BlockIds(w) \cup {w.connections[i].source : i \in 1..Len(w.connections)}
              \cup {w.connections[i].target : i \in 1..Len(w.connections)}
              \cup UNION {Range(w.loops[l]) : l \in DOMAIN w.loops}

\* blocks.find(b => b.id === id)
HasBlock(w, id) == \E i \in 1..Len(w.blocks) : w.blocks[i].id = id
FindBlock(w, id) ==
  w.blocks[CHOOSE i \in 1..Len(w.blocks) :
             w.blocks[i].id = id /\ \A j \in 1..(i-1) : w.blocks[j].id # id]

TypeOf(w, id) == IF HasBlock(w, id) THEN FindBlock(w, id).type ELSE "undefined"

\* a BlockOutput
Out(kind, x, blockId, condId, res) ==
  [kind |-> kind, x |-> x, blockId |-> blockId, selectedConditionId |-> condId,
   result |-> res, value |-> Undefined]

NoState == Out("none", 0, NoBlock, NoCond, FALSE)
EmptyResponse == Out("empty", 0, NoBlock, NoCond, FALSE)
ValueOut(x) == Out("value", x, NoBlock, NoCond, FALSE)
PathOut(t) == Out("selectedPath", 0, t, NoCond, FALSE)
ConditionOut(t, c, met) == Out("condition", 0, t, c, met)
\* { response: { value: s } }, s a string (the sequence of its characters)
TextOut(s) == [Out("text", 0, NoBlock, NoCond, FALSE) EXCEPT !.value = <<s>>]

\* the values a tool or an agent may return
Values == {-1, 1}

---------------------------------------------------------------------------
(* Errors: a message and its interpolated argument *)

Error(msg, arg) == <<msg, arg>>
NoError == <<>>

\* error.message || fallback
MessageOr(e, fallback) == IF e = Error("", "") THEN Error(fallback, "") ELSE e

---------------------------------------------------------------------------
(* Dependency graph (executeInParallel, graph construction) *)

\* connections.filter(conn => conn.source === id)
OutgoingConns(w, id) == SelectSeq(w.connections, LAMBDA c : c.source = id)

\* conn.sourceHandle?.startsWith('condition-')
IsConditionHandle(h) == Len(h) >= 1 /\ h[1] = "condition-"

\* conn.sourceHandle.replace('condition-', '')
HandleConditionId(h) == IF IsConditionHandle(h) /\ Len(h) >= 2 THEN h[2] ELSE ""

\* whether a connection is added to the target's inDegree
\* countEdge with the reference test applied to router edges as well
CountEdgeRouterToo(w, conn) ==
  IF conn.condition THEN FALSE
  ELSE IF HasBlock(w, conn.source)
          /\ FindBlock(w, conn.source).type \in {"evaluator", "router"}
          /\ HasBlock(w, conn.target)
       THEN Contains(FindBlock(w, conn.target).refs, conn.source)
       ELSE TRUE

CountEdge(w, conn) ==
  IF conn.condition THEN FALSE
  ELSE IF HasBlock(w, conn.source) /\ FindBlock(w, conn.source).type = "evaluator"
          /\ HasBlock(w, conn.target)
       THEN Contains(FindBlock(w, conn.target).refs, conn.source)
       ELSE TRUE

CountedInto(w, id) ==
  {i \in 1..Len(w.connections) :
     w.connections[i].target = id /\ CountEdge(w, w.connections[i])}

InitialInDegree(w) == [id \in NodeIds(w) |-> Cardinality(CountedInto(w, id))]

\* an initial queue that stops at the first block with zero inDegree
InitialQueueFirstOnly(w) ==
  LET deg == InitialInDegree(w)
      ids == [i \in 1..Len(w.blocks) |-> w.blocks[i].id]
      zero == SeqFilter(ids, {id \in NodeIds(w) : deg[id] = 0})
  IN  IF zero = <<>> THEN <<>> ELSE <<Head(zero)>>

\* all blocks with zero inDegree, in Map insertion order
InitialQueue(w) ==
  LET deg == InitialInDegree(w)
      ids == [i \in 1..Len(w.blocks) |-> w.blocks[i].id]
  IN  SeqFilter(ids, {id \in NodeIds(w) : deg[id] = 0})

\* loop.nodes.includes(id) for some loop
InSomeLoop(w, id) == \E l \in DOMAIN w.loops : Contains(w.loops[l], id)

\* resetLoopBlocksDegrees: the in-degree of each loop node recomputed from
\* the connections whose source is a node of the loop
\* the recalculation with every connection into the block counted
ResetCountingAllConnections(w, deg, loopId) ==
  LET nodes == Range(w.loops[loopId])
  IN  [id \in DOMAIN deg |->
         IF id \in nodes
         THEN Cardinality({i \in 1..Len(w.connections) : w.connections[i].target = id})
         ELSE deg[id]]

ResetLoopBlocksDegrees(w, deg, loopId) ==
  LET nodes == Range(w.loops[loopId])
  IN  [id \in DOMAIN deg |->
         IF id \in nodes
         THEN Cardinality({i \in 1..Len(w.connections) :
                             w.connections[i].target = id
                             /\ w.connections[i].source \in nodes})
         ELSE deg[id]]

---------------------------------------------------------------------------
(* Path gate (isInChosenPath) *)

\* the targets pushed when the search leaves currentId
\* the successors with the connections that leave a router or an evaluator
\* followed as well
PathSuccessorsThroughDecisions(w, currentId) ==
  LET out == OutgoingConns(w, currentId)
  IN  [i \in 1..Len(out) |-> out[i].target]

PathSuccessors(w, currentId) ==
  IF TypeOf(w, currentId) \in {"router", "evaluator"} THEN <<>>
  ELSE LET out == OutgoingConns(w, currentId)
       IN  [i \in 1..Len(out) |-> out[i].target]

RECURSIVE PathSearch(_, _, _, _)
\* the while loop of isInChosenPath
PathSearch(w, blockId, q, visited) ==
  IF q = <<>> THEN FALSE
  ELSE IF Head(q) \in visited THEN PathSearch(w, blockId, Tail(q), visited)
  ELSE IF Head(q) = blockId THEN TRUE
  ELSE PathSearch(w, blockId, Tail(q) \o PathSuccessors(w, Head(q)),
                  visited \cup {Head(q)})

IsInChosenPath(w, blockId, chosenBlockId, decisionBlockId) ==
  IF blockId = decisionBlockId THEN TRUE
  ELSE PathSearch(w, blockId, <<chosenBlockId>>, {})

\* the conditional-path check of the layer filter for one recorded condition
ConditionalPathAllows(w, blockId, conditionBlockId, selectedConditionId) ==
  LET match == {i \in 1..Len(w.connections) :
                  /\ w.connections[i].source = conditionBlockId
                  /\ w.connections[i].target = blockId
                  /\ IsConditionHandle(w.connections[i].sourceHandle)}
  IN  IF match = {} THEN TRUE
      ELSE LET first == CHOOSE i \in match : \A j \in match : i <= j
           IN  HandleConditionId(w.connections[first].sourceHandle) = selectedConditionId

\* the layer filter without its test of the enabled flag
IsExecutableIgnoringEnabled(w, blockId, rd, ed, acp) ==
  /\ HasBlock(w, blockId)
  /\ \A r \in DOMAIN rd : rd[r] # NoBlock => IsInChosenPath(w, blockId, rd[r], r)
  /\ \A e \in DOMAIN ed : ed[e] # NoBlock => IsInChosenPath(w, blockId, ed[e], e)
  /\ \A c \in DOMAIN acp : acp[c] # NoCond => ConditionalPathAllows(w, blockId, c, acp[c])

\* the filter that makes executableBlocks out of currentLayer
IsExecutable(w, blockId, rd, ed, acp) ==
  /\ HasBlock(w, blockId)
  /\ FindBlock(w, blockId).enabled
  /\ \A r \in DOMAIN rd : rd[r] # NoBlock => IsInChosenPath(w, blockId, rd[r], r)
  /\ \A e \in DOMAIN ed : ed[e] # NoBlock => IsInChosenPath(w, blockId, ed[e], e)
  /\ \A c \in DOMAIN acp : acp[c] # NoCond => ConditionalPathAllows(w, blockId, c, acp[c])

ExecutableBlocks(w, layer, rd, ed, acp) ==
  SelectSeq(layer, LAMBDA id : IsExecutable(w, id, rd, ed, acp))

---------------------------------------------------------------------------
(* Input resolver (resolveInputs): the checks made on each block reference *)

RECURSIVE ResolveRefs(_, _, _)
\* the error raised by the first reference that does not resolve, or NoError
ResolveRefs(w, refs, states) ==
  IF refs = <<>> THEN NoError
  ELSE IF ~HasBlock(w, Head(refs))
       THEN Error("Block reference was not found: ", Head(refs))
  ELSE IF ~FindBlock(w, Head(refs)).enabled
       THEN Error("Block is disabled, and a block depends on it: ", Head(refs))
  ELSE IF states[Head(refs)] = NoState
       THEN Error("No state found for block: ", Head(refs))
  ELSE ResolveRefs(w, Tail(refs), states)

\* F(value), value computed once
With(value, F(_)) == CHOOSE r \in {F(v) : v \in {value}} : TRUE

\* the characters of '<source.response.value>'
Template(source) ==
  <<"<", source, ".", "r", "e", "s", "p", "o", "n", "s", "e", ".",
    "v", "a", "l", "u", "e", ">">>

\* String.prototype.indexOf: the first position of pattern in s, or 0
IndexOf(s, pattern) ==
  LET at == {i \in 1..(Len(s) - Len(pattern) + 1) :
               SubSeq(s, i, i + Len(pattern) - 1) = pattern}
  IN  IF at = {} THEN 0 ELSE CHOOSE i \in at : \A j \in at : i <= j

RECURSIVE Expand(_, _, _, _)
\* the replacement string of String.prototype.replace with its patterns
\* $$ and $& expanded (a string pattern has no capture groups; the texts of
\* the model have no backquote or apostrophe, so the two patterns that
\* insert the text before and after the match cannot occur)
Expand(r, matched, before, after) ==
  IF r = <<>> THEN <<>>
  ELSE IF Head(r) = "$" /\ Len(r) >= 2 /\ r[2] \in {"$", "&"}
  THEN (IF r[2] = "$" THEN <<"$">> ELSE matched)
       \o With(SubSeq(r, 3, Len(r)), LAMBDA rest : Expand(rest, matched, before, after))
  ELSE <<Head(r)>> \o Expand(Tail(r), matched, before, after)

\* s.replace(pattern, replacement), pattern a string
ReplaceFirst(s, pattern, replacement) ==
  LET i == IndexOf(s, pattern)
      before == SubSeq(s, 1, i - 1)
      after == SubSeq(s, i + Len(pattern), Len(s))
  IN  IF i = 0 THEN s
      ELSE before \o Expand(replacement, pattern, before, after) \o after

\* the end of the match of /\{\{([^}]+)\}\}/ that starts at i, or 0
EnvMatchEnd(s, i) ==
  IF ~(i + 1 <= Len(s) /\ s[i] = "{" /\ s[i + 1] = "{") THEN 0
  ELSE LET closing == {j \in (i + 2)..Len(s) : s[j] = "}"}
           j == CHOOSE k \in closing : \A m \in closing : k <= m
       IN  IF closing = {} THEN 0
           ELSE IF j > i + 2 /\ j + 1 <= Len(s) /\ s[j + 1] = "}" THEN j + 1
           ELSE 0

RECURSIVE EnvMatches(_, _)
\* value.match(/\{\{([^}]+)\}\}/g): the matches from position i on
EnvMatches(s, i) ==
  IF i > Len(s) THEN <<>>
  ELSE With(EnvMatchEnd(s, i),
            LAMBDA e : IF e # 0 THEN <<SubSeq(s, i, e)>> \o EnvMatches(s, e + 1)
                       ELSE EnvMatches(s, i + 1))

\* this.environmentVariables
EnvironmentVariables == [key \in {<<"K">>} |-> <<"v">>]

RECURSIVE ReplaceEnvMatches(_, _)
\* the for loop of resolveEnvVars over the matches
ReplaceEnvMatches(s, matches) ==
  IF matches = <<>> THEN [error |-> NoError, value |-> s]
  ELSE LET match == Head(matches)
           envKey == SubSeq(match, 3, Len(match) - 2)
       IN  IF envKey \notin DOMAIN EnvironmentVariables
           THEN [error |-> Error("Environment variable was not found", ""), value |-> s]
           ELSE With(ReplaceFirst(s, match, EnvironmentVariables[envKey]),
                     LAMBDA replaced : ReplaceEnvMatches(replaced, Tail(matches)))

\* resolveEnvVars of a string
ResolveEnvVars(s) ==
  With(s, LAMBDA value :
    With(EnvMatches(value, 1), LAMBDA envMatches : ReplaceEnvMatches(value, envMatches)))

RECURSIVE IsJson(_)
\* JSON.parse(s) succeeds, for the texts the characters of the model can
\* spell: {}, a number of digits 1, an array of at most one such value
IsJson(s) ==
  \/ s = <<"{", "}">>
  \/ s # <<>> /\ \A i \in 1..Len(s) : s[i] = "1"
  \/ /\ Len(s) >= 2
     /\ s[1] = "[" /\ s[Len(s)] = "]"
     /\ (Len(s) = 2 \/ IsJson(SubSeq(s, 2, Len(s) - 1)))

\* the try block at the end of the reducer: JSON.parse of a value that
\* starts with { or [, the string itself otherwise or when the parse throws
ParseResolved(s) ==
  IF s # <<>> /\ s[1] \in {"{", "["} /\ IsJson(s)
  THEN [type |-> "object", text |-> s]
  ELSE [type |-> "string", text |-> s]

\* JSON.stringify of a string whose characters need no escape
JsonString(s) == <<"\"">> \o s \o <<"\"">>

NoInput == [type |-> "undefined", text |-> <<>>]

\* the reducer of resolveInputs for the parameter of the block that is
\* exactly a block reference: [error, value]
ResolveParam(block, states) ==
  IF block.param = Undefined THEN [error |-> NoError, value |-> NoInput]
  ELSE LET p == block.param[1]
           stored == states[p.source].value
           replaced == IF block.type = "function" /\ p.key = "code"
                       THEN ReplaceFirst(Template(p.source), Template(p.source),
                                         JsonString(stored[1]))
                       ELSE IF p.key = "context" THEN stored[1]
                       ELSE ReplaceFirst(Template(p.source), Template(p.source), stored[1])
       IN  IF stored = Undefined
           THEN [error |-> Error("No value found at path in block: ", p.source),
                 value |-> NoInput]
           ELSE With(ResolveEnvVars(replaced),
                     LAMBDA resolved :
                       IF resolved.error # NoError
                       THEN [error |-> resolved.error, value |-> NoInput]
                       ELSE [error |-> NoError, value |-> ParseResolved(resolved.value)])

\* the error resolveInputs throws, or NoError
ResolveInputsError(w, block, states) ==
  IF ResolveRefs(w, block.refs, states) # NoError
  THEN ResolveRefs(w, block.refs, states)
  ELSE ResolveParam(block, states).error

---------------------------------------------------------------------------
(* Conditional evaluator (executeConditionalBlock) *)

\* new Function('context', 'with(context) { return <value> }')(evalContext):
\* "true" | "false" (falsy, also undefined) | "throw" (x is not in scope)
EvalCondition(value, sourceOutput) ==
  CASE value = "x > 0" ->
         IF sourceOutput.kind # "value" THEN "throw"
         ELSE IF sourceOutput.x > 0 THEN "true" ELSE "false"
    [] value = "x < 0" ->
         IF sourceOutput.kind # "value" THEN "throw"
         ELSE IF sourceOutput.x < 0 THEN "true" ELSE "false"
    [] value = "true" -> "true"
    [] OTHER -> "false"

\* outgoingConnections.find(conn => conn.sourceHandle === `condition-${id}`)
BranchOf(out, condId) ==
  LET match == {i \in 1..Len(out) : out[i].sourceHandle = <<"condition-", condId>>}
  IN  IF match = {} THEN 0 ELSE CHOOSE i \in match : \A j \in match : i <= j

RECURSIVE ScanConditions(_, _, _)
\* the for loop over the conditions: the selected condition, or an error, and
\* the number of conditions whose expression was evaluated
ScanConditions(conditions, out, sourceOutput) ==
  IF conditions = <<>>
  THEN [status |-> "none", id |-> NoCond, target |-> NoBlock, met |-> FALSE,
        evaluated |-> 0]
  ELSE LET c == Head(conditions)
           v == EvalCondition(c.value, sourceOutput)
           k == BranchOf(out, c.id)
       IN  IF v = "throw"
           THEN [status |-> "throw", id |-> c.id, target |-> NoBlock, met |-> FALSE,
                 evaluated |-> 1]
           ELSE IF k # 0 /\ ((c.title \in {"if", "else if"} /\ v = "true")
                             \/ c.title = "else")
           THEN [status |-> "selected", id |-> c.id, target |-> out[k].target,
                 met |-> (v = "true"), evaluated |-> 1]
           ELSE [ScanConditions(Tail(conditions), out, sourceOutput)
                   EXCEPT !.evaluated = @ + 1]

\* connections.find(conn => conn.target === block.id)?.source
FirstSourceOf(w, id) ==
  LET into == {i \in 1..Len(w.connections) : w.connections[i].target = id}
  IN  IF into = {} THEN NoBlock
      ELSE w.connections[CHOOSE i \in into : \A j \in into : i <= j].source

\* executeConditionalBlock: [error, output]
ExecuteConditionalBlock(w, block, states) ==
  LET src == FirstSourceOf(w, block.id)
      fail(e) == [error |-> e, output |-> NoState]
  IN  IF src = NoBlock
      THEN fail(Error("No source block found for condition block ", block.id))
      ELSE IF states[src] = NoState
      THEN fail(Error("No output found for source block ", src))
      ELSE LET sel == ScanConditions(block.conditions, OutgoingConns(w, block.id),
                                     states[src])
           IN  IF sel.status = "throw"
               THEN fail(Error("Failed to evaluate condition: ", sel.id))
               ELSE IF sel.status = "none"
               THEN fail(Error("No matching path found for condition block ", block.id))
               ELSE IF ~HasBlock(w, sel.target)
               THEN fail(Error("Target block not found: ", sel.target))
               ELSE [error |-> NoError,
                     output |-> ConditionOut(sel.target, sel.id, sel.met)]

---------------------------------------------------------------------------
(* Router / evaluator (executeRouterBlock, executeEvaluatorBlock) *)

\* the ids of targetBlocks; a connection to a missing block throws instead
DecisionTargets(w, id) ==
  LET out == OutgoingConns(w, id) IN {out[i].target : i \in 1..Len(out)}

\* a lookup of the targets that never misses a block
NoMissingTarget(w, id) == NoBlock

\* the first outgoing connection whose target is not a block of the workflow
MissingTarget(w, id) ==
  LET out == OutgoingConns(w, id)
      bad == {i \in 1..Len(out) : ~HasBlock(w, out[i].target)}
  IN  IF bad = {} THEN NoBlock ELSE out[CHOOSE i \in bad : \A j \in bad : i <= j].target

\* what the provider may answer (trimmed, lowercased): a target id or not
Replies(w, id) == DecisionTargets(w, id) \cup {"zzz"}

\* a reply taken as it comes, target or not
DecisionErrorAcceptingAny(w, block, reply) == NoError

\* targetBlocks.find(b => b.id === chosenBlockId) and the check that follows
DecisionError(w, block, reply) ==
  IF reply \in DecisionTargets(w, block.id) THEN NoError
  ELSE IF block.type = "router" THEN Error("Invalid routing decision: ", reply)
  ELSE Error("Invalid evaluation decision: ", reply)

\* value || fallback, falsy being the falsy value of the input's type
OrElse(value, falsy, fallback) ==
  IF value = Undefined \/ value = falsy THEN fallback ELSE value

\* routerConfig / evaluatorConfig, getProviderFromModel(model) and the request
\* given to executeProviderRequest
DecisionRequest(block) ==
  LET config == [model |-> block.model,
                 temperature |-> OrElse(block.temperature, <<0>>, <<0>>)]
      model == OrElse(config.model, <<"">>, <<"gpt-4o">>)
  IN  [providerFor |-> model, model |-> config.model,
       temperature |-> config.temperature]

\* the provider request of an agent block
AgentRequest(block) ==
  LET model == OrElse(block.model, <<"">>, <<"gpt-4o">>)
  IN  [providerFor |-> model, model |-> model, temperature |-> block.temperature]

\* a tool block issues no provider request
NoRequest == [providerFor |-> Undefined, model |-> Undefined, temperature |-> Undefined]

RequestOf(block) ==
  IF block.type \in {"router", "evaluator"} THEN DecisionRequest(block)
  ELSE IF block.type = "agent" THEN AgentRequest(block)
  ELSE NoRequest

---------------------------------------------------------------------------
(* Block dispatcher (executeBlock) and the dispatch of one layer *)

LogEntry(id, startedAt, endedAt, success, output, error) ==
  [blockId |-> id, startedAt |-> startedAt, endedAt |-> endedAt,
   success |-> success, output |-> output, error |-> error]

\* a catch of executeBlock that records the attempt as a success
FailureLogMarkedSuccessful(id, startedAt, endedAt, e) ==
  LogEntry(id, startedAt, endedAt, TRUE, NoState, MessageOr(e, "Block execution failed"))

\* the catch of executeBlock: blockLog.error = error.message || '...'
FailureLog(id, startedAt, endedAt, e) ==
  LogEntry(id, startedAt, endedAt, FALSE, NoState, MessageOr(e, "Block execution failed"))

SuccessLog(id, startedAt, endedAt, output) ==
  LogEntry(id, startedAt, endedAt, TRUE, output, NoError)

\* one dispatch attempt of the history
Dispatch(id, layer, at, outcome) ==
  [block |-> id, layer |-> layer, at |-> at, outcome |-> outcome]

NextLayerNo(disp) == IF disp = <<>> THEN 1 ELSE disp[Len(disp)].layer + 1

\* the index a new entry of the history gets, 0 when the history is full
NewIndex(disp) == IF Len(disp) < MaxLog THEN Len(disp) + 1 ELSE 0

SetOutcome(disp, i, outcome) ==
  IF i = 0 THEN disp ELSE [disp EXCEPT ![i].outcome = outcome]

\* the write that also stores the output under the selected target
SetBlockStateAndTarget(states, id, output) ==
  IF output.blockId \in DOMAIN states
  THEN [states EXCEPT ![id] = output, ![output.blockId] = output]
  ELSE [states EXCEPT ![id] = output]

\* context.blockStates.set(block.id, output)
SetBlockState(states, id, output) == [states EXCEPT ![id] = output]

\* the write done whether the dispatch failed or not
WriteAlways(states, id, settled) == SetBlockState(states, id, settled.output)

\* blockStates after executeBlock settled: the set follows the await, so a
\* dispatch that throws writes nothing
WriteOnSuccess(states, id, settled) ==
  IF settled.error = NoError THEN SetBlockState(states, id, settled.output) ELSE states

\* the part of one map callback that runs before its first suspension:
\* resolveInputs, then executeBlock up to the provider / tool call.  st holds
\* states, logs, inflight, clock, disp, micro (continuations queued as
\* microtasks) and rejections ([depth, error], depth = microtask ticks)
SyncDispatch(w, st, id, layerNo) ==
  LET block == FindBlock(w, id)
      rerr == With(st.states, LAMBDA states : ResolveInputsError(w, block, states))
      idx == NewIndex(st.disp)
      began == [st EXCEPT !.clock = Tick(st.clock)]
      pending == [began EXCEPT
                    !.disp = Push(st.disp, Dispatch(id, layerNo, st.clock, "pending")),
                    !.inflight = Append(st.inflight,
                                   [block |-> id, startedAt |-> st.clock, disp |-> idx,
                                    request |-> RequestOf(block),
                                    inputs |-> With(st.states, LAMBDA states :
                                                 ResolveParam(block, states).value)])]
      later(e, out) ==
        [began EXCEPT
           !.disp = Push(st.disp, Dispatch(id, layerNo, st.clock,
                                           IF e = NoError THEN "ok" ELSE "raised")),
           !.micro = Append(st.micro, [block |-> id, startedAt |-> st.clock,
                                        error |-> e, output |-> out])]
  IN  IF rerr # NoError
      THEN [st EXCEPT
              !.disp = Push(st.disp, Dispatch(id, layerNo, st.clock, "raised")),
              !.rejections = Append(st.rejections, [depth |-> 0, error |-> rerr])]
      ELSE IF ~block.enabled
      THEN [st EXCEPT
              !.disp = Push(st.disp, Dispatch(id, layerNo, st.clock, "raised")),
              !.rejections = Append(st.rejections,
                               [depth |-> 1,
                                error |-> Error("Cannot execute disabled block: ", id)])]
      ELSE IF block.type \in {"router", "evaluator"}
      THEN IF MissingTarget(w, id) # NoBlock
           THEN later(Error("Target block not found: ", MissingTarget(w, id)), NoState)
           ELSE pending
      ELSE IF block.type = "condition"
      THEN LET r == ExecuteConditionalBlock(w, block, st.states)
           IN  IF r.error # NoError THEN later(r.error, NoState)
               ELSE [later(NoError, r.output) EXCEPT
                       !.states = SetBlockState(st.states, id, r.output)]
      ELSE IF block.type = "agent"
      THEN pending
      ELSE IF ~block.toolKnown
      THEN LET e == Error("Tool not found: ", id)
           IN  [st EXCEPT
                  !.clock = Tick(Tick(st.clock)),
                  !.disp = Push(st.disp, Dispatch(id, layerNo, st.clock, "raised")),
                  !.logs = Push(st.logs, FailureLog(id, st.clock, Tick(st.clock), e)),
                  !.rejections = Append(st.rejections, [depth |-> 1, error |-> e])]
      ELSE pending

RECURSIVE SyncPhase(_, _, _, _)
\* executableBlocks.map(async (blockId) => ...) up to each first suspension
SyncPhase(w, st, layer, layerNo) ==
  IF layer = <<>> THEN st
  ELSE SyncPhase(w, SyncDispatch(w, st, Head(layer), layerNo), Tail(layer), layerNo)

\* one queued continuation: the end of executeBlock (log, blockStates) and of
\* the map callback (blockStates, lastOutput, activeConditionalPaths)
RunMicrotask(st, m) ==
  IF m.error # NoError
  THEN [st EXCEPT
          !.clock = Tick(st.clock),
          !.logs = Push(st.logs, FailureLog(m.block, m.startedAt, st.clock, m.error)),
          !.states = WriteOnSuccess(st.states, m.block, m),
          !.rejections = Append(st.rejections, [depth |-> 2, error |-> m.error])]
  ELSE [st EXCEPT
          !.clock = Tick(st.clock),
          !.logs = Push(st.logs, SuccessLog(m.block, m.startedAt, st.clock, m.output)),
          !.states = WriteOnSuccess(st.states, m.block, m),
          !.last = m.output,
          !.acp[m.block] = m.output.selectedConditionId]

RECURSIVE MicroPhase(_, _)
MicroPhase(st, micro) ==
  IF micro = <<>> THEN st
  ELSE MicroPhase(RunMicrotask(st, Head(micro)), Tail(micro))

\* the rejection Promise.all settles with: the earliest one
FirstRejection(rejections) ==
  LET d == CHOOSE d \in {rejections[i].depth : i \in 1..Len(rejections)} :
             \A i \in 1..Len(rejections) : d <= rejections[i].depth
      k == CHOOSE i \in 1..Len(rejections) :
             /\ rejections[i].depth = d
             /\ \A j \in 1..(i-1) : rejections[j].depth # d
  IN  rejections[k].error

\* the catch of execute without the fallback message
FailureResultNoFallback(e, logs) ==
  [success |-> FALSE, output |-> EmptyResponse, error |-> e, logs |-> logs]

\* the catch of execute
FailureResult(e, logs) ==
  [success |-> FALSE, output |-> EmptyResponse,
   error |-> MessageOr(e, "Workflow execution failed"), logs |-> logs]

\* the return of execute after executeInParallel
SuccessResult(output, logs) ==
  [success |-> TRUE, output |-> output, error |-> NoError, logs |-> logs]

NoResult == [success |-> FALSE, output |-> NoState, error |-> NoError, logs |-> <<>>]

---------------------------------------------------------------------------
(* What a provider or a tool may do with a pending call *)

Settled(e, output) == [error |-> e, output |-> output]

\* executeTool: { success: true, output } or { success: false, error }
ToolOutcomes ==
  {Settled(NoError, ValueOut(x)) : x \in Values}
    \cup {Settled(MessageOr(Error(m, ""), "Tool failed with no error message"), NoState) :
            m \in {"", "tool error"}}

\* the longest text a text tool returns, some longer ones apart
MaxLen == 2

Alphabet == {"h", "i", "$", "&", "[", "]", "{", "}", "1"}

\* the strings a text tool may return
Texts ==
  UNION {[1..n -> Alphabet] : n \in 0..MaxLen}
    \cup {<<"[", "1", "]">>, <<"{", "{", "K", "}", "}">>, <<"{", "{", "h", "}", "}">>,
          <<"$", "&", "$", "$">>}

\* executeTool of a tool that returns text
TextOutcomes ==
  {Settled(NoError, TextOut(s)) : s \in Texts}
    \cup {Settled(Error("tool error", ""), NoState)}

\* executeProviderRequest for an agent: a response, or an exception
AgentOutcomes ==
  {Settled(NoError, ValueOut(x)) : x \in Values}
    \cup {Settled(Error(m, ""), NoState) : m \in {"", "provider error"}}

\* executeProviderRequest for a router / evaluator, and the check of the reply
DecisionOutcomes(w, block) ==
  {Settled(DecisionError(w, block, v),
           IF DecisionError(w, block, v) = NoError THEN PathOut(v) ELSE NoState) :
     v \in Replies(w, block.id)}
    \cup {Settled(Error(m, ""), NoState) : m \in {"", "provider error"}}

Outcomes(w, block) ==
  IF block.type \in {"router", "evaluator"} THEN DecisionOutcomes(w, block)
  ELSE IF block.type = "agent" THEN AgentOutcomes
  ELSE IF block.tool = "text" THEN TextOutcomes
  ELSE ToolOutcomes

---------------------------------------------------------------------------
(* Graph update after a layer (outgoing connections, loop reset) *)

\* a decrement that enqueues whenever the new degree is not positive
DecrementEnqueueBelowZero(g, target) ==
  [g EXCEPT !.deg[target] = @ - 1,
            !.queue = IF g.deg[target] - 1 <= 0 THEN Append(@, target) ELSE @]

\* newDegree = inDegree.get(target) - 1; enqueue when it is 0
Decrement(g, target) ==
  [g EXCEPT !.deg[target] = @ - 1,
            !.queue = IF g.deg[target] - 1 = 0 THEN Append(@, target) ELSE @]

\* an evaluator's connection to its chosen path
EvaluatorEdge(w, g, conn) ==
  IF InSomeLoop(w, conn.target)
  THEN [g EXCEPT !.queue = Append(@, conn.target)]
  ELSE Decrement(g, conn.target)

\* one outgoing connection of a finished block
ProcessConnection(w, g, conn, rd, ed, acp) ==
  IF TypeOf(w, conn.source) = "evaluator"
  THEN IF conn.target = ed[conn.source] THEN EvaluatorEdge(w, g, conn) ELSE g
  ELSE IF TypeOf(w, conn.source) = "router"
  THEN IF conn.target = rd[conn.source] THEN Decrement(g, conn.target) ELSE g
  ELSE IF ~IsConditionHandle(conn.sourceHandle)
  THEN Decrement(g, conn.target)
  ELSE IF acp[conn.source] = HandleConditionId(conn.sourceHandle)
  THEN Decrement(g, conn.target)
  ELSE g

RECURSIVE ProcessConnections(_, _, _, _, _, _)
ProcessConnections(w, g, conns, rd, ed, acp) ==
  IF conns = <<>> THEN g
  ELSE ProcessConnections(w, ProcessConnection(w, g, Head(conns), rd, ed, acp),
                          Tail(conns), rd, ed, acp)

RECURSIVE ProcessOutgoing(_, _, _, _, _, _)
\* for (const finishedBlockId of layerResults) ...
ProcessOutgoing(w, g, layerResults, rd, ed, acp) ==
  IF layerResults = <<>> THEN g
  ELSE ProcessOutgoing(
         w,
         ProcessConnections(w, g, OutgoingConns(w, Head(layerResults)), rd, ed, acp),
         Tail(layerResults), rd, ed, acp)

\* executedLoopBlocks.find(blockId => type === 'evaluator')
EvaluatorInLoop(w, executed) ==
  LET evs == {i \in 1..Len(executed) : TypeOf(w, executed[i]) = "evaluator"}
  IN  IF evs = {} THEN NoBlock ELSE executed[CHOOSE i \in evs : \A j \in evs : i <= j]

\* the test of the reset without the bound on the iterations
LoopRepeatsUnbounded(w, iterations, loopId, layerResults, ed) ==
  LET nodes == Range(w.loops[loopId])
      executed == SeqFilter(layerResults, nodes)
      ev == EvaluatorInLoop(w, executed)
  IN  /\ executed # <<>>
      /\ ev # NoBlock
      /\ ed[ev] # NoBlock
      /\ ed[ev] \in nodes

\* whether the loop is reset after this layer
LoopRepeats(w, iterations, loopId, layerResults, ed) ==
  LET nodes == Range(w.loops[loopId])
      executed == SeqFilter(layerResults, nodes)
      ev == EvaluatorInLoop(w, executed)
  IN  /\ executed # <<>>
      /\ iterations < MAX_ITERATIONS
      /\ ev # NoBlock
      /\ ed[ev] # NoBlock
      /\ ed[ev] \in nodes

\* the body of the loop-reset for one loop
LoopReset(w, g, loopId, layerResults, ed) ==
  IF LoopRepeats(w, g.iters[loopId], loopId, layerResults, ed)
  THEN LET deg == ResetLoopBlocksDegrees(w, g.deg, loopId)
       IN  [g EXCEPT
              !.deg = deg,
              !.queue = @ \o SeqFilter(w.loops[loopId], {id \in DOMAIN deg : deg[id] = 0}),
              !.iters[loopId] = @ + 1]
  ELSE g

RECURSIVE LoopResets(_, _, _, _, _)
LoopResets(w, g, loopIds, layerResults, ed) ==
  IF loopIds = <<>> THEN g
  ELSE LoopResets(w, LoopReset(w, g, Head(loopIds), layerResults, ed),
                  Tail(loopIds), layerResults, ed)

---------------------------------------------------------------------------
(* The workflows the executor is constructed with *)

\* every workflow of three generic-tool blocks a, b, c: any subset of the
\* connections a->b, a->c, b->c and any choice of enabled flags
ToolWorkflows ==
  LET edges == <<Conn("a", "b"), Conn("a", "c"), Conn("b", "c")>>
      flag(id, off) == IF id \in off THEN Disabled(ToolBlock(id)) ELSE ToolBlock(id)
  IN  {Workflow("tools",
                <<flag("a", off), flag("b", off), flag("c", off)>>,
                SelectSeq(edges, LAMBDA e : e \in keep),
                <<>>, NoLoops) :
         keep \in SUBSET Range(edges), off \in SUBSET {"a", "b", "c"}}

\* a router with two targets, one of them followed by another block
RouterWorkflow ==
  Workflow("router",
           <<RouterBlock("r"), ToolBlock("t1"), ToolBlock("t2"), ToolBlock("u")>>,
           <<Conn("r", "t1"), Conn("r", "t2"), Conn("t1", "u")>>,
           <<>>, NoLoops)

\* the same router, its connections carrying the condition marker
MarkedRouterWorkflow ==
  Workflow("routerMarked",
           <<RouterBlock("r"), ToolBlock("t1"), ToolBlock("t2")>>,
           <<MarkedConn(Conn("r", "t1")), MarkedConn(Conn("r", "t2"))>>,
           <<>>, NoLoops)

IfElse == <<Cond("a", "if", "x > 0"), Cond("b", "else", "")>>

\* s feeds a condition block with branches a (if x > 0) and b (else)
ConditionWorkflow ==
  Workflow("condition",
           <<ToolBlock("s"), ConditionBlock("c", IfElse), ToolBlock("ta"), ToolBlock("tb")>>,
           <<Conn("s", "c"), BranchConn("c", "ta", "a"), BranchConn("c", "tb", "b")>>,
           <<>>, NoLoops)

\* the same, the branch connections carrying the condition marker
MarkedConditionWorkflow ==
  Workflow("conditionMarked",
           <<ToolBlock("s"), ConditionBlock("c", IfElse), ToolBlock("ta"), ToolBlock("tb")>>,
           <<Conn("s", "c"), MarkedConn(BranchConn("c", "ta", "a")),
             MarkedConn(BranchConn("c", "tb", "b"))>>,
           <<>>, NoLoops)

\* a condition block with a single 'if' branch: no branch matches when x < 0
IfOnlyWorkflow ==
  Workflow("ifOnly",
           <<AgentBlock("s"), ConditionBlock("c", <<Cond("a", "if", "x > 0")>>),
             ToolBlock("ta")>>,
           <<Conn("s", "c"), BranchConn("c", "ta", "a")>>,
           <<>>, NoLoops)

\* a declared loop {b, e}: s enters it, the evaluator e chooses between the
\* loop body b and the exit x
LoopWorkflow ==
  Workflow("loop",
           <<ToolBlock("s"), ToolBlock("b"), EvaluatorBlock("e"),
             Referencing(ToolBlock("x"), <<"e">>)>>,
           <<Conn("s", "b"), Conn("b", "e"), Conn("e", "b"), Conn("e", "x")>>,
           <<"L1">>, [l \in {"L1"} |-> <<"b", "e">>])

\* a declared loop of two evaluators that select each other
EvaluatorPairWorkflow ==
  Workflow("evaluatorPair",
           <<EvaluatorBlock("e1"), EvaluatorBlock("e2")>>,
           <<Conn("e1", "e2"), Conn("e2", "e1")>>,
           <<"L1">>, [l \in {"L1"} |-> <<"e1", "e2">>])

\* t waits for a (counted connection) and is also a target of the evaluator
\* e, whose connections are not counted
EvaluatorJoinWorkflow ==
  Workflow("evaluatorJoin",
           <<ToolBlock("s"), ToolBlock("a"), ToolBlock("t"), EvaluatorBlock("e"),
             Referencing(ToolBlock("u"), <<"e">>)>>,
           <<Conn("s", "a"), Conn("a", "t"), Conn("e", "t"), Conn("e", "u")>>,
           <<>>, NoLoops)

\* b references the disabled block d; c is unrelated
DisabledReferenceWorkflow ==
  Workflow("disabledReference",
           <<Disabled(ToolBlock("d")), Referencing(ToolBlock("b"), <<"d">>), ToolBlock("c")>>,
           <<>>, <<>>, NoLoops)

\* b references a, whose tool is not registered
UnknownToolWorkflow ==
  Workflow("unknownTool",
           <<AgentBlock("a"), Blk("k", "tool", TRUE, <<>>, <<>>, FALSE),
             Referencing(ToolBlock("b"), <<"a">>)>>,
           <<Conn("a", "b"), Conn("a", "k")>>,
           <<>>, NoLoops)

\* a router with a connection to a block that is not in the workflow
MissingTargetWorkflow ==
  Workflow("missingTarget",
           <<RouterBlock("r"), ToolBlock("t1")>>,
           <<Conn("r", "t1"), Conn("r", "gone")>>,
           <<>>, NoLoops)

\* b references the disabled block d and is connected to it; c -> c2 is an
\* unrelated branch
DisabledUpstreamWorkflow ==
  Workflow("disabledUpstream",
           <<Disabled(ToolBlock("d")), Referencing(ToolBlock("b"), <<"d">>),
             ToolBlock("c"), ToolBlock("c2")>>,
           <<Conn("d", "b"), Conn("c", "c2")>>,
           <<>>, NoLoops)

\* a declared loop {e, b, d}: the evaluator e selects b; the disabled block d
\* has no incoming connection inside the loop, so every loop reset queues it
DisabledLoopWorkflow ==
  Workflow("disabledLoop",
           <<EvaluatorBlock("e"), ToolBlock("b"), Disabled(ToolBlock("d"))>>,
           <<Conn("e", "b"), Conn("d", "b")>>,
           <<"L1">>, [l \in {"L1"} |-> <<"e", "b", "d">>])

\* the evaluator e may select the disabled block t, which references e
DisabledChoiceWorkflow ==
  Workflow("disabledChoice",
           <<EvaluatorBlock("e"), Disabled(Referencing(ToolBlock("t"), <<"e">>)),
             Referencing(ToolBlock("u"), <<"e">>)>>,
           <<Conn("e", "t"), Conn("e", "u")>>,
           <<>>, NoLoops)

\* the 'if' branch of the condition block has no connection; only the
\* 'else' branch is wired
UnwiredBranchWorkflow ==
  Workflow("unwiredBranch",
           <<ToolBlock("s"), ConditionBlock("c", IfElse), ToolBlock("tb")>>,
           <<Conn("s", "c"), BranchConn("c", "tb", "b")>>,
           <<>>, NoLoops)

\* a router with one target, for every choice of its model and temperature
\* inputs: not given, empty / zero, or a value
RouterInputWorkflows ==
  {Workflow("routerInputs",
            <<WithInputs(RouterBlock("r"), m, t), ToolBlock("t1")>>,
            <<Conn("r", "t1")>>,
            <<>>, NoLoops) :
     m \in {Undefined, <<"">>, <<"claude">>}, t \in {Undefined, <<0>>, <<5>>}}

\* the chain a -> b where a parameter of b is exactly '<a.response.value>'
\* and a returns text
ReferenceWorkflows ==
  {Workflow("reference",
            <<TextBlock("a"), WithParam(b, key, "a")>>,
            <<Conn("a", "b")>>, <<>>, NoLoops) :
     b \in {ToolBlock("b"), FunctionBlock("b")}, key \in {"prompt", "context", "code"}}

\* a router downstream of the target another router chooses
NestedRouterWorkflow ==
  Workflow("nested",
           <<RouterBlock("r1"), ToolBlock("a"), RouterBlock("r2"), ToolBlock("t"),
             ToolBlock("y")>>,
           <<Conn("r1", "a"), Conn("a", "r2"), Conn("r2", "t"), Conn("r2", "y")>>,
           <<>>, NoLoops)

\* a router and, apart from it, the chain p -> q
ParallelBranchWorkflow ==
  Workflow("parallelBranch",
           <<RouterBlock("r"), ToolBlock("t1"), ToolBlock("p"), ToolBlock("q")>>,
           <<Conn("r", "t1"), Conn("p", "q")>>,
           <<>>, NoLoops)

\* the loop d -> b -> e -> b entered from outside through s -> d
EnteredLoopWorkflow ==
  Workflow("enteredLoop",
           <<ToolBlock("s"), ToolBlock("d"), ToolBlock("b"), EvaluatorBlock("e")>>,
           <<Conn("s", "d"), Conn("d", "b"), Conn("b", "e"), Conn("e", "b")>>,
           <<"L1">>, [l \in {"L1"} |-> <<"d", "b", "e">>])

\* the workflow with this.initialBlockStates = { [blockId]: output }
WithInitialStates(w, blockId, output) ==
  [w EXCEPT !.initialBlockStates = <<[blockId |-> blockId, output |-> output]>>]

\* b -> a, b refers to a, the state of a is pre-populated
\* two evaluators of one layer whose common target t is a node of a
\* declared loop and references both
SharedTargetWorkflow ==
  Workflow("sharedTarget",
           <<EvaluatorBlock("e1"), EvaluatorBlock("e2"),
             Referencing(ToolBlock("t"), <<"e1", "e2">>)>>,
           <<Conn("e1", "t"), Conn("e2", "t")>>,
           <<"L1">>, [l \in {"L1"} |-> <<"t">>])

SeededWorkflow ==
  WithInitialStates(
    Workflow("seeded", <<ToolBlock("a"), Referencing(ToolBlock("b"), <<"a">>)>>,
             <<Conn("b", "a")>>, <<>>, NoLoops),
    "a", ValueOut(1))

Workflows ==
  ToolWorkflows \cup RouterInputWorkflows \cup ReferenceWorkflows \cup
  {RouterWorkflow, MarkedRouterWorkflow, ConditionWorkflow, MarkedConditionWorkflow,
   IfOnlyWorkflow, LoopWorkflow, EvaluatorPairWorkflow, EvaluatorJoinWorkflow,
   DisabledReferenceWorkflow, UnknownToolWorkflow, MissingTargetWorkflow,
   DisabledUpstreamWorkflow, DisabledLoopWorkflow, DisabledChoiceWorkflow,
   UnwiredBranchWorkflow, SeededWorkflow, NestedRouterWorkflow,
   ParallelBranchWorkflow, EnteredLoopWorkflow, SharedTargetWorkflow}

---------------------------------------------------------------------------
(* The state machine *)

NoDecisions(w) == [id \in NodeIds(w) |-> NoBlock]

\* selectedAgentId: null
NoId == 0

\* the initial state of create<AgentState>
StoreCreated ==
  /\ agents = <<>>
  /\ mcpServers = <<>>
  /\ selectedAgentId = NoId
  /\ issued = 0
  /\ lastCall = <<>>

\* no request has reached the chat POST handler
NoChatRequest ==
  chat = [pc |-> "idle", created |-> FALSE, isConnected |-> FALSE, completions |-> 0,
          iterationCount |-> 0, toolCallsInResponse |-> <<>>, content |-> "",
          toolCalls |-> 0, disconnects |-> 0, status |-> 0, lastToolCall |-> "none"]

\* nothing has run yet
Constructed ==
  /\ inDegree = [id \in NodeIds(wf) |-> 0]
  /\ queue = <<>>
  /\ currentLayer = <<>>
  /\ inflight = <<>>
  /\ routerDecisions = NoDecisions(wf)
  /\ evaluatorDecisions = NoDecisions(wf)
  /\ activeConditionalPaths = NoDecisions(wf)
  /\ loopIterations = [l \in DOMAIN wf.loops |-> 0]
  /\ blockStates = [id \in NodeIds(wf) |-> NoState]
  /\ blockLogs = <<>>
  /\ lastOutput = EmptyResponse
  /\ result = NoResult
  /\ clock = 0
  /\ dispatches = <<>>
  /\ other = <<>>
  /\ inChosenPath = <<>>

Init ==
  /\ wf \in Workflows
  /\ pc = "idle"
  /\ Constructed
  /\ StoreCreated
  /\ NoChatRequest

\* context.blockStates after the pre-population from this.initialBlockStates
InitialBlockStates(w) ==
  [id \in NodeIds(w) |->
     IF \E i \in 1..Len(w.initialBlockStates) : w.initialBlockStates[i].blockId = id
     THEN (CHOOSE e \in Range(w.initialBlockStates) : e.blockId = id).output
     ELSE NoState]

\* a context kept on the Executor and used again by the next call
KeptContext(w, previous) ==
  [blockStates |-> previous.blockStates, blockLogs |-> previous.blockLogs]

\* the context execute builds; previous is the context of the call before
NewContext(w, previous) ==
  [blockStates |-> InitialBlockStates(w), blockLogs |-> <<>>]

\* the state of one execute call
Run ==
  [pc |-> pc, inDegree |-> inDegree, queue |-> queue, currentLayer |-> currentLayer,
   inflight |-> inflight, routerDecisions |-> routerDecisions,
   evaluatorDecisions |-> evaluatorDecisions,
   activeConditionalPaths |-> activeConditionalPaths,
   loopIterations |-> loopIterations, blockStates |-> blockStates,
   blockLogs |-> blockLogs, lastOutput |-> lastOutput, result |-> result,
   dispatches |-> dispatches]

\* the event loop goes on with the execute call r
Resume(r) ==
  /\ pc' = r.pc
  /\ inDegree' = r.inDegree
  /\ queue' = r.queue
  /\ currentLayer' = r.currentLayer
  /\ inflight' = r.inflight
  /\ routerDecisions' = r.routerDecisions
  /\ evaluatorDecisions' = r.evaluatorDecisions
  /\ activeConditionalPaths' = r.activeConditionalPaths
  /\ loopIterations' = r.loopIterations
  /\ blockStates' = r.blockStates
  /\ blockLogs' = r.blockLogs
  /\ lastOutput' = r.lastOutput
  /\ result' = r.result
  /\ dispatches' = r.dispatches

\* an execute call at the while loop of executeInParallel, its context built
\* and the locals of executeInParallel initialised
Started(w, previous) ==
  [pc |-> "ready", inDegree |-> InitialInDegree(w), queue |-> InitialQueue(w),
   currentLayer |-> <<>>, inflight |-> <<>>,
   routerDecisions |-> NoDecisions(w), evaluatorDecisions |-> NoDecisions(w),
   activeConditionalPaths |-> NoDecisions(w),
   loopIterations |-> [l \in DOMAIN w.loops |-> 0],
   blockStates |-> NewContext(w, previous).blockStates,
   blockLogs |-> NewContext(w, previous).blockLogs,
   lastOutput |-> EmptyResponse, result |-> NoResult, dispatches |-> <<>>]

\* execute, up to the while loop of executeInParallel
Execute ==
  /\ pc = "idle"
  /\ clock' = Tick(clock)
  /\ Resume(Started(wf, Run))
  /\ UNCHANGED <<wf, other, aside>>

\* the workflows whose Executor gets a second execute call
Reentered == {"seeded"}

\* a second execute call on the same Executor, after the first returned or
\* while it is awaiting; the first call waits for the event loop
ExecuteAgain ==
  /\ pc # "idle"
  /\ other = <<>>
  /\ wf.name \in Reentered
  /\ clock' = Tick(clock)
  /\ other' = <<Run>>
  /\ Resume(Started(wf, Run))
  /\ UNCHANGED <<wf, aside>>

\* the event loop turns to the continuations of the other execute call
Switch ==
  /\ other # <<>>
  /\ other' = <<Run>>
  /\ Resume(other[1])
  /\ UNCHANGED <<wf, clock, aside>>

\* Promise.all resolving without waiting for the pending dispatches
LayerSettledEarly == TRUE

\* Promise.all has every dispatch of the layer settled
LayerSettled == inflight = <<>>

\* a rejected dispatch that does not stop the scheduler
AfterDispatchIgnoringFailure(current, failed) == current

\* Promise.all rejects with the first dispatch that rejects, executeInParallel
\* throws and the catch of execute returns
AfterDispatch(current, failed) == IF failed THEN "returned" ELSE current

\* the returned result holds context.blockLogs itself, not a copy
ResultSharingLogs(res, logs) == [res EXCEPT !.logs = logs]

\* one pass of the while loop up to the await of Promise.all
\* (st1, st: the context after the synchronous parts, then after the microtasks)
StartLayer ==
  /\ pc = "ready"
  /\ queue # <<>>
  /\ LET layer == ExecutableBlocks(wf, queue, routerDecisions, evaluatorDecisions,
                                   activeConditionalPaths)
         st0 == [states |-> blockStates, logs |-> blockLogs, inflight |-> <<>>,
                 clock |-> clock, disp |-> dispatches, micro |-> <<>>,
                 rejections |-> <<>>, last |-> lastOutput,
                 acp |-> activeConditionalPaths]
     IN  \E st1 \in {SyncPhase(wf, st0, layer, NextLayerNo(dispatches))} :
         \E st \in {MicroPhase(st1, st1.micro)} :
         /\ queue' = <<>>
         /\ currentLayer' = layer
         /\ inflight' = st.inflight
         /\ blockStates' = st.states
         /\ blockLogs' = st.logs
         /\ clock' = st.clock
         /\ dispatches' = st.disp
         /\ lastOutput' = st.last
         /\ activeConditionalPaths' = st.acp
         /\ pc' = AfterDispatch("awaiting", st.rejections # <<>>)
         /\ result' = IF pc' = "returned"
                       THEN FailureResult(FirstRejection(st.rejections), st.logs)
                       ELSE result
  /\ UNCHANGED <<aside, wf, other, inDegree, routerDecisions, evaluatorDecisions, loopIterations>>

\* the rest of one dispatch once its provider / tool call settles with o
Complete(i, o) ==
  LET d == inflight[i]
      block == FindBlock(wf, d.block)
      entry == IF o.error = NoError
               THEN SuccessLog(d.block, d.startedAt, clock, o.output)
               ELSE FailureLog(d.block, d.startedAt, clock, o.error)
      logs == Push(blockLogs, entry)
  IN  /\ pc \in {"awaiting", "returned"}
      /\ inflight' = SubSeq(inflight, 1, i - 1) \o SubSeq(inflight, i + 1, Len(inflight))
      /\ clock' = Tick(clock)
      /\ blockLogs' = logs
      /\ dispatches' = SetOutcome(dispatches, d.disp,
                                  IF o.error = NoError THEN "ok" ELSE "raised")
      /\ blockStates' = WriteOnSuccess(blockStates, d.block, o)
      /\ IF o.error = NoError
         THEN /\ lastOutput' = o.output
              /\ routerDecisions' =
                   IF block.type = "router"
                   THEN [routerDecisions EXCEPT ![d.block] = o.output.blockId]
                   ELSE routerDecisions
              /\ evaluatorDecisions' =
                   IF block.type = "evaluator"
                   THEN [evaluatorDecisions EXCEPT ![d.block] = o.output.blockId]
                   ELSE evaluatorDecisions
         ELSE UNCHANGED <<lastOutput, routerDecisions, evaluatorDecisions>>
      /\ pc' = AfterDispatch(pc, o.error # NoError)
      /\ result' = IF pc = "returned" THEN ResultSharingLogs(result, logs)
                    ELSE IF pc' = "returned" THEN FailureResult(o.error, logs)
                    ELSE result
      /\ UNCHANGED <<aside, wf, other, inDegree, queue, currentLayer, activeConditionalPaths,
                     loopIterations>>

\* the continuation of Promise.all: outgoing connections, then loop resets
FinishLayer ==
  /\ pc = "awaiting"
  /\ LayerSettled
  /\ LET g0 == [deg |-> inDegree, queue |-> queue, iters |-> loopIterations]
     IN  \E g1 \in {ProcessOutgoing(wf, g0, currentLayer, routerDecisions,
                                     evaluatorDecisions, activeConditionalPaths)} :
         \E g \in {LoopResets(wf, g1, wf.loopIds, currentLayer, evaluatorDecisions)} :
         /\ inDegree' = g.deg
         /\ queue' = g.queue
         /\ loopIterations' = g.iters
  /\ pc' = "ready"
  /\ currentLayer' = <<>>
  /\ UNCHANGED <<aside, wf, other, inflight, routerDecisions, evaluatorDecisions,
                 activeConditionalPaths, blockStates, blockLogs, lastOutput, result,
                 clock, dispatches>>

\* the queue is empty: executeInParallel returns lastOutput
ReturnSuccess ==
  /\ pc = "ready"
  /\ queue = <<>>
  /\ pc' = "returned"
  /\ clock' = Tick(clock)
  /\ result' = SuccessResult(lastOutput, blockLogs)
  /\ UNCHANGED <<aside, wf, other, inDegree, queue, currentLayer, inflight, routerDecisions,
                 evaluatorDecisions, activeConditionalPaths, loopIterations,
                 blockStates, blockLogs, lastOutput, dispatches>>

Settle ==
  \E i \in 1..Len(inflight) :
    \E o \in Outcomes(wf, FindBlock(wf, inflight[i].block)) : Complete(i, o)

Next == Execute \/ StartLayer \/ Settle \/ FinishLayer \/ ReturnSuccess

Spec == Init /\ [][Next]_vars

\* the Executor of a workflow of Reentered gets a second execute call
TwoRunNext == Next \/ ExecuteAgain \/ Switch

TwoRunSpec == Init /\ [][TwoRunNext]_vars

\* the connections a graph on a, b, c may have, in the order of the workflow
PathEdges ==
  <<Conn("a", "a"), Conn("a", "b"), Conn("a", "c"), Conn("b", "a"), Conn("b", "b"),
    Conn("b", "c"), Conn("c", "a"), Conn("c", "b"), Conn("c", "c")>>

RECURSIVE Selected(_, _, _)
\* the elements s[i], i >= from, with keep[i]
Selected(s, keep, from) ==
  IF from > Len(s) THEN <<>>
  ELSE IF keep[from] THEN <<s[from]>> \o Selected(s, keep, from + 1)
  ELSE Selected(s, keep, from + 1)

\* the workflows on blocks a, b, c, a a tool or a router, b a tool or an
\* evaluator, with any connections, cycles included
PathGraphs ==
  {Workflow("graph", <<a, b, ToolBlock("c")>>, Selected(PathEdges, keep, 1), <<>>, NoLoops) :
     a \in {ToolBlock("a"), RouterBlock("a")},
     b \in {ToolBlock("b"), EvaluatorBlock("b")},
     keep \in [1..Len(PathEdges) -> BOOLEAN]}

\* an Executor on one of the graphs, no run started
PathInit ==
  /\ wf \in PathGraphs
  /\ pc = "constructed"
  /\ Constructed
  /\ StoreCreated
  /\ NoChatRequest

\* a call isInChosenPath(blockId, chosenBlockId, decisionBlockId)
CallIsInChosenPath ==
  /\ pc = "constructed"
  /\ \E blockId \in BlockIds(wf), chosenBlockId \in BlockIds(wf), decisionBlockId \in BlockIds(wf) :
       inChosenPath' = <<[blockId |-> blockId, chosenBlockId |-> chosenBlockId,
                          decisionBlockId |-> decisionBlockId,
                          returned |-> IsInChosenPath(wf, blockId, chosenBlockId,
                                                      decisionBlockId)]>>
  /\ UNCHANGED <<executorVars, storeVars, chat>>

PathSpec == PathInit /\ [][CallIsInChosenPath]_vars

---------------------------------------------------------------------------
(* The agent-builder store (useAgentStore): agents, MCP servers and the   *)
(* ids of the servers an agent uses                                        *)

\* the number of ids nanoid() returns in the model
MaxIds == 3

\* the ids nanoid() returns, and the ids a caller may pass
Ids == 1..MaxIds

\* config.mcpServerIds: undefined
NoServerIds == [defined |-> FALSE, ids |-> <<>>]

\* config.mcpServerIds: an array
ServerIds(ids) == [defined |-> TRUE, ids |-> ids]

\* mcpServerIds.length > 0 ? mcpServerIds : undefined
NonEmptyOrUndefined(ids) == IF Len(ids) > 0 THEN ServerIds(ids) ELSE NoServerIds

\* the agent CreateAgentDialog.handleSubmit passes to addAgent: a config of
\* name, description, model and systemPrompt, without mcpServerIds
NewAgent == [config |-> [mcpServerIds |-> NoServerIds]]

\* the store as one value
Store == [agents |-> agents, mcpServers |-> mcpServers, selectedAgentId |-> selectedAgentId]

\* array.filter(x => x !== id)
Without(ids, id) == SelectSeq(ids, LAMBDA x : x # id)

\* array.find(x => x.id === id) finds an element
HasId(items, id) == \E i \in 1..Len(items) : items[i].id = id

\* array.find(x => x.id === id)
FindById(items, id) ==
  items[CHOOSE i \in 1..Len(items) : items[i].id = id /\ \A j \in 1..(i - 1) : items[j].id # id]

\* agent.config.mcpServerIds || []
IdsOrEmpty(agent) == agent.config.mcpServerIds.ids

AddAgent(s, id, agent) ==
  [s EXCEPT !.agents = Append(@, [id |-> id, config |-> agent.config]),
            !.selectedAgentId = id]

DeleteAgent(s, id) ==
  [s EXCEPT !.agents = SelectSeq(@, LAMBDA a : a.id # id)]

AddMcpServer(s, id) ==
  [s EXCEPT !.mcpServers = Append(@, [id |-> id])]

\* a deleteMcpServer that leaves the agents as they are
DeleteMcpServerOnly(s, id) ==
  [s EXCEPT !.mcpServers = SelectSeq(@, LAMBDA m : m.id # id)]

DeleteMcpServer(s, id) ==
  [s EXCEPT
     !.mcpServers = SelectSeq(@, LAMBDA m : m.id # id),
     !.agents = [i \in 1..Len(s.agents) |->
                   IF Contains(IdsOrEmpty(s.agents[i]), id)
                   THEN [s.agents[i] EXCEPT
                           !.config.mcpServerIds =
                              NonEmptyOrUndefined(Without(IdsOrEmpty(s.agents[i]), id))]
                   ELSE s.agents[i]]]

AddMcpServerToAgent(s, agentId, mcpServerId) ==
  IF ~HasId(s.agents, agentId) \/ ~HasId(s.mcpServers, mcpServerId) THEN s
  ELSE LET currentIds == IdsOrEmpty(FindById(s.agents, agentId))
       IN  IF Contains(currentIds, mcpServerId) THEN s
           ELSE [s EXCEPT
                   !.agents = [i \in 1..Len(s.agents) |->
                                 IF s.agents[i].id = agentId
                                 THEN [s.agents[i] EXCEPT
                                         !.config.mcpServerIds =
                                            ServerIds(Append(currentIds, mcpServerId))]
                                 ELSE s.agents[i]]]

RemoveMcpServerFromAgent(s, agentId, mcpServerId) ==
  IF ~HasId(s.agents, agentId) THEN s
  ELSE LET mcpServerIds == Without(IdsOrEmpty(FindById(s.agents, agentId)), mcpServerId)
       IN  [s EXCEPT
              !.agents = [i \in 1..Len(s.agents) |->
                            IF s.agents[i].id = agentId
                            THEN [s.agents[i] EXCEPT
                                    !.config.mcpServerIds = NonEmptyOrUndefined(mcpServerIds)]
                            ELSE s.agents[i]]]

\* set(...): the store becomes s, after the call `call`
Set(s, call) ==
  /\ agents' = s.agents
  /\ mcpServers' = s.mcpServers
  /\ selectedAgentId' = s.selectedAgentId
  /\ lastCall' = call

CallAddAgent ==
  /\ pc = "store"
  /\ issued < MaxIds
  /\ issued' = issued + 1
  /\ Set(AddAgent(Store, issued + 1, NewAgent), <<"addAgent">>)
  /\ UNCHANGED <<executorVars, inChosenPath, chat>>

CallAddMcpServer ==
  /\ pc = "store"
  /\ issued < MaxIds
  /\ issued' = issued + 1
  /\ Set(AddMcpServer(Store, issued + 1), <<"addMcpServer">>)
  /\ UNCHANGED <<executorVars, inChosenPath, chat>>

CallDeleteAgent ==
  /\ pc = "store"
  /\ \E id \in Ids : Set(DeleteAgent(Store, id), <<"deleteAgent", id>>)
  /\ UNCHANGED <<executorVars, inChosenPath, issued, chat>>

CallDeleteMcpServer ==
  /\ pc = "store"
  /\ \E id \in Ids : Set(DeleteMcpServer(Store, id), <<"deleteMcpServer", id>>)
  /\ UNCHANGED <<executorVars, inChosenPath, issued, chat>>

CallAddMcpServerToAgent ==
  /\ pc = "store"
  /\ \E agentId \in Ids, mcpServerId \in Ids :
       Set(AddMcpServerToAgent(Store, agentId, mcpServerId),
           <<"addMcpServerToAgent", agentId, mcpServerId>>)
  /\ UNCHANGED <<executorVars, inChosenPath, issued, chat>>

CallRemoveMcpServerFromAgent ==
  /\ pc = "store"
  /\ \E agentId \in Ids, mcpServerId \in Ids :
       Set(RemoveMcpServerFromAgent(Store, agentId, mcpServerId),
           <<"removeMcpServerFromAgent", agentId, mcpServerId>>)
  /\ UNCHANGED <<executorVars, inChosenPath, issued, chat>>

StoreInit ==
  /\ wf = RouterWorkflow
  /\ pc = "store"
  /\ Constructed
  /\ StoreCreated
  /\ NoChatRequest

StoreNext ==
  \/ CallAddAgent
  \/ CallAddMcpServer
  \/ CallDeleteAgent
  \/ CallDeleteMcpServer
  \/ CallAddMcpServerToAgent
  \/ CallRemoveMcpServerFromAgent

StoreSpec == StoreInit /\ [][StoreNext]_vars

---------------------------------------------------------------------------
(* The chat POST handler: one request, its McpClient and its tool-call loop *)

\* the tool calls one completion carries in the model
MaxCalls == 2

\* const MAX_ITERATIONS = 10 of the POST handler
ChatMaxIterations == 10

\* a tool call of a completion: its arguments parse and the tool succeeds,
\* its arguments parse and callTool throws, JSON.parse of its arguments throws
ToolCallKinds == {"succeeds", "fails", "unparsable"}

RECURSIVE SeqsUpTo(_, _)
SeqsUpTo(S, n) ==
  IF n = 0 THEN {<<>>}
  ELSE SeqsUpTo(S, n - 1) \cup {Append(q, x) : q \in SeqsUpTo(S, n - 1), x \in S}

\* what openai.chat.completions.create resolves to: message.content and
\* message.tool_calls (absent or empty: <<>>)
Completions ==
  [content : {"", "text"}, tool_calls : SeqsUpTo(ToolCallKinds, MaxCalls)]

\* McpClient.connect: isConnected after the attempt
Connect(succeeds) == succeeds

\* if (!this.isConnected) await this.connect()
EnsureConnected(isConnected, succeeds) ==
  IF ~isConnected THEN Connect(succeeds) ELSE isConnected

\* McpClient.disconnect
Disconnect(c) == [c EXCEPT !.isConnected = FALSE, !.disconnects = @ + 1]

\* a loop test without the limit on the iterations
LoopContinuesUnlimited(iterationCount, toolCallsInResponse) ==
  toolCallsInResponse # <<>>

\* while (iterationCount < MAX_ITERATIONS) { if (no tool calls) break ...
LoopContinues(iterationCount, toolCallsInResponse) ==
  iterationCount < ChatMaxIterations /\ toolCallsInResponse # <<>>

\* client.disconnect() and NextResponse.json(...) at the end of the try
Respond(c) == [Disconnect(c) EXCEPT !.pc = "responded", !.status = 200]

\* the catch of the try (disconnect, rethrow) and the outer catch (status 500)
Rethrow(c) == [Disconnect(c) EXCEPT !.pc = "responded", !.status = 500]

\* after a completion resolved: the test of the loop, then the next round
\* of tool calls or the response
AfterCompletion(c) ==
  IF LoopContinues(c.iterationCount, c.toolCallsInResponse)
  THEN [c EXCEPT !.pc = "tools"]
  ELSE Respond(c)

\* POST up to the first await of create: request.json, new McpClient,
\* connect, listTools (which connects again when not connected), new OpenAI
Post ==
  /\ pc = "chat"
  /\ chat.pc = "idle"
  /\ \/ chat' = [chat EXCEPT !.pc = "responded", !.status = 500]
     \/ \E first \in BOOLEAN, second \in BOOLEAN, setup \in BOOLEAN :
          chat' = [chat EXCEPT
                     !.created = TRUE,
                     !.isConnected = EnsureConnected(Connect(first), second),
                     !.pc = IF setup THEN "completing" ELSE "responded",
                     !.status = IF setup THEN 0 ELSE 500]
  /\ UNCHANGED <<executorVars, inChosenPath, storeVars>>

\* await openai.chat.completions.create(...) rejects
CompletionFails ==
  /\ pc = "chat"
  /\ chat.pc = "completing"
  /\ chat' = Rethrow([chat EXCEPT !.completions = @ + 1])
  /\ UNCHANGED <<executorVars, inChosenPath, storeVars>>

\* await openai.chat.completions.create(...) resolves: the initial request
\* or the request at the end of a round
CompletionReturns ==
  /\ pc = "chat"
  /\ chat.pc = "completing"
  /\ \E r \in Completions :
       chat' = AfterCompletion(
                 [chat EXCEPT
                    !.completions = @ + 1,
                    !.toolCallsInResponse = r.tool_calls,
                    !.content = IF r.content # "" \/ chat.completions = 0
                                THEN r.content ELSE @,
                    !.iterationCount = IF chat.completions = 0 THEN @ ELSE @ + 1])
  /\ UNCHANGED <<executorVars, inChosenPath, storeVars>>

\* one pass of for (const toolCall of toolCallsInResponse): JSON.parse,
\* executeTool, the push of a successful call; after the last tool call the
\* handler awaits the next completion
ProcessToolCall ==
  /\ pc = "chat"
  /\ chat.pc = "tools"
  /\ \E reconnects \in BOOLEAN :
       LET toolCall == Head(chat.toolCallsInResponse)
           rest == Tail(chat.toolCallsInResponse)
           connected == IF toolCall = "unparsable" THEN chat.isConnected
                        ELSE EnsureConnected(chat.isConnected, reconnects)
           success == toolCall = "succeeds" /\ connected
       IN  chat' = [chat EXCEPT
                      !.isConnected = connected,
                      !.toolCallsInResponse = rest,
                      !.toolCalls = IF success THEN @ + 1 ELSE @,
                      !.lastToolCall = IF success THEN "succeeded"
                                       ELSE IF toolCall = "unparsable" THEN "threw"
                                       ELSE "unsuccessful",
                      !.pc = IF rest = <<>> THEN "completing" ELSE "tools"]
  /\ UNCHANGED <<executorVars, inChosenPath, storeVars>>

ChatInit ==
  /\ wf = RouterWorkflow
  /\ pc = "chat"
  /\ Constructed
  /\ StoreCreated
  /\ NoChatRequest

ChatNext == Post \/ CompletionFails \/ CompletionReturns \/ ProcessToolCall

ChatSpec == ChatInit /\ [][ChatNext]_vars

\* every pending provider / tool call settles and the scheduler keeps running
FairSpec == Spec /\ WF_vars(Next)

---------------------------------------------------------------------------
(* Vocabulary of the properties *)

DispatchIndexes(id) == {i \in 1..Len(dispatches) : dispatches[i].block = id}

DispatchCount(id) == Cardinality(DispatchIndexes(id))

\* some dispatch attempt of the run has raised
Raised == \E i \in 1..Len(dispatches) : dispatches[i].outcome = "raised"

\* no loops and no router / evaluator / condition blocks
SimpleWorkflow(w) ==
  /\ DOMAIN w.loops = {}
  /\ \A i \in 1..Len(w.blocks) : w.blocks[i].type \notin {"router", "evaluator", "condition"}

\* a dispatch of id has completed successfully before time t
CompletedBefore(id, t) ==
  \E i \in 1..Len(blockLogs) :
    blockLogs[i].blockId = id /\ blockLogs[i].success /\ blockLogs[i].endedAt < t

---------------------------------------------------------------------------
(* Properties *)

\* C1: execute never throws: whenever it has returned there is a result, a
\* successful one only if no dispatch raised; and as soon as a dispatch has
\* raised, execute has returned a result with success = false, a non-empty
\* error message and the run's blockLogs
C1_ExecuteNeverThrows ==
  /\ pc = "returned" => (result.success \/ result.error # NoError)
  /\ Raised => /\ pc = "returned"
               /\ ~result.success
               /\ result.error # NoError
               /\ result.error[1] # ""
               /\ result.logs = blockLogs

\* a provider threw an error without message: the result carries the fallback
C1_Witness ==
  /\ pc = "returned"
  /\ Raised
  /\ ~result.success
  /\ result.error = Error("Workflow execution failed", "")
  /\ Len(result.logs) >= 2

\* C2: in a workflow without loops and decision blocks, a run that returns
\* success has dispatched every enabled block exactly once, and for every
\* connection the source's dispatch completed before the target's started
C2_EveryEnabledBlockOnceInOrder ==
  (pc = "returned" /\ result.success /\ SimpleWorkflow(wf)) =>
    /\ \A i \in 1..Len(wf.blocks) :
         wf.blocks[i].enabled => DispatchCount(wf.blocks[i].id) = 1
    /\ \A k \in 1..Len(wf.connections) :
         \A j \in DispatchIndexes(wf.connections[k].target) :
           CompletedBefore(wf.connections[k].source, dispatches[j].at)

\* a counted connection is satisfied: its source has finished and, when the
\* source is a decision block, has selected this connection
ConnectionSatisfied(k) ==
  LET c == wf.connections[k]
  IN  /\ \E i \in DispatchIndexes(c.source) : dispatches[i].outcome = "ok"
      /\ TypeOf(wf, c.source) = "router" => routerDecisions[c.source] = c.target
      /\ TypeOf(wf, c.source) = "evaluator" => evaluatorDecisions[c.source] = c.target
      /\ (TypeOf(wf, c.source) = "condition" /\ IsConditionHandle(c.sourceHandle))
           => activeConditionalPaths[c.source] = HandleConditionId(c.sourceHandle)

\* C3: a block is dispatched only when every counted incoming connection of
\* it is satisfied
C3_DispatchedOnlyWhenSatisfied ==
  [][\A i \in (Len(dispatches) + 1)..Len(dispatches') :
       \A k \in CountedInto(wf, dispatches'[i].block) : ConnectionSatisfied(k)]_vars

\* C4: once a dispatch has raised no further block is dispatched, and the
\* returned result holds the log entries appended so far
C4_FailureStopsTheRun ==
  /\ [](Raised => (pc = "returned" /\ ~result.success /\ result.logs = blockLogs))
  /\ [][Raised => Len(dispatches') = Len(dispatches)]_vars

\* a run has failed and left an enabled block of a later layer undispatched,
\* although everything upstream of it is enabled
C4_Witness ==
  /\ pc = "returned"
  /\ Raised
  /\ inflight = <<>>
  /\ Len(blockLogs) >= 2
  /\ \A i \in 1..Len(wf.blocks) : wf.blocks[i].enabled
  /\ \E i \in 1..Len(wf.blocks) : DispatchCount(wf.blocks[i].id) = 0

\* C5: layers are sequential: blocks are dispatched, and inDegree and the
\* queue are updated, only when no dispatch is pending; when a layer starts
\* every earlier dispatch has settled and its output is in blockStates
C5_LayersAreSequential ==
  /\ [][(Len(dispatches') > Len(dispatches) \/ inDegree' # inDegree \/ queue' # queue)
          => inflight = <<>>]_vars
  /\ [](pc = "ready" =>
          \A i \in 1..Len(dispatches) :
            /\ dispatches[i].outcome = "ok"
            /\ blockStates[dispatches[i].block] # NoState)

\* one block of a layer has settled while another is pending, and a block
\* downstream of the settled one still waits
C5_Witness ==
  /\ pc = "awaiting"
  /\ Len(inflight) >= 1
  /\ \E i \in 1..Len(dispatches) :
       /\ dispatches[i].outcome = "ok"
       /\ dispatches[i].layer = dispatches[Len(dispatches)].layer
       /\ \E k \in 1..Len(wf.connections) :
            /\ wf.connections[k].source = dispatches[i].block
            /\ inDegree[wf.connections[k].target] > 0


\* the evaluators among the nodes of a loop
LoopEvaluators(l) == {id \in Range(wf.loops[l]) : TypeOf(wf, id) = "evaluator"}

\* every time an evaluator of loop l has run so far, it has selected a node
\* of the loop
KeepsSelectingInLoop(l) ==
  /\ \E i \in 1..Len(blockLogs) :
       blockLogs[i].blockId \in LoopEvaluators(l) /\ blockLogs[i].success
  /\ \A i \in 1..Len(blockLogs) :
       (blockLogs[i].blockId \in LoopEvaluators(l) /\ blockLogs[i].success)
         => blockLogs[i].output.blockId \in Range(wf.loops[l])

\* C6: when the evaluator of a declared loop selects an in-loop target every
\* time it runs, every block of the loop is dispatched at most twice
C6_LoopBodyAtMostTwice ==
  \A l \in DOMAIN wf.loops :
    KeepsSelectingInLoop(l) =>
      \A id \in Range(wf.loops[l]) : DispatchCount(id) <= MAX_ITERATIONS

\* the targets of the loop's evaluators that lie outside the loop
ExitTargets(l) ==
  {wf.connections[k].target : k \in {j \in 1..Len(wf.connections) :
      /\ wf.connections[j].source \in LoopEvaluators(l)
      /\ wf.connections[j].target \notin Range(wf.loops[l])}}

\* C7: when the evaluator of a declared loop keeps selecting an in-loop
\* target, the run has, by the time it returns successfully with the bound
\* reached, dispatched the evaluator's out-of-loop target after the loop body
C7_ExitEdgeTakenAfterBound ==
  \A l \in DOMAIN wf.loops :
    (/\ pc = "returned"
     /\ result.success
     /\ KeepsSelectingInLoop(l)
     /\ loopIterations[l] = MAX_ITERATIONS
     /\ ExitTargets(l) # {})
      => \E x \in ExitTargets(l) :
           \E i \in DispatchIndexes(x) :
             \E id \in Range(wf.loops[l]) : CompletedBefore(id, dispatches[i].at)

\* C8: every run terminates: execute eventually returns
C8_EveryRunTerminates == <>(pc = "returned")

\* the log entries of failed router dispatches with an invalid decision
InvalidRoutingLogs ==
  {i \in 1..Len(blockLogs) :
     /\ ~blockLogs[i].success
     /\ blockLogs[i].error[1] = "Invalid routing decision: "}

\* C9: when a router's reply is not one of its targets, the dispatch fails
\* with 'Invalid routing decision: <value>', the run returns success = false,
\* no decision is recorded for the router and none of the router's targets
\* is ever dispatched
C9_InvalidRoutingDecision ==
  \A i \in InvalidRoutingLogs :
    LET r == blockLogs[i].blockId
    IN  /\ blockLogs[i].error[2] \notin DecisionTargets(wf, r)
        /\ pc = "returned"
        /\ ~result.success
        /\ (DispatchCount(r) = 1 => routerDecisions[r] = NoBlock)
        /\ \A t \in DecisionTargets(wf, r) : DispatchCount(t) = 0

\* the targets wired to branch condId of condition block c
BranchTargets(c, condId) ==
  {wf.connections[k].target : k \in {j \in 1..Len(wf.connections) :
      /\ wf.connections[j].source = c
      /\ wf.connections[j].sourceHandle = <<"condition-", condId>>}}

\* the targets wired to some branch of c
AllBranchTargets(c) ==
  {wf.connections[k].target : k \in {j \in 1..Len(wf.connections) :
      /\ wf.connections[j].source = c
      /\ IsConditionHandle(wf.connections[j].sourceHandle)}}

\* C10: once a condition block has selected condition c, no target wired only
\* to other branches is ever dispatched, and when the run returns successfully
\* the target of branch c has been dispatched after the condition block
C10_OnlySelectedBranchRuns ==
  \A c \in BlockIds(wf) :
    (TypeOf(wf, c) = "condition" /\ activeConditionalPaths[c] # NoCond) =>
      /\ \A t \in AllBranchTargets(c) \ BranchTargets(c, activeConditionalPaths[c]) :
           DispatchCount(t) = 0
      /\ (pc = "returned" /\ result.success) =>
           \A t \in BranchTargets(c, activeConditionalPaths[c]) :
             \E i \in DispatchIndexes(t) : CompletedBefore(c, dispatches[i].at)

\* the blocks linked to a block of S by connections, in either direction
RECURSIVE Component(_, _)
Component(w, S) ==
  LET N == S \cup {w.connections[k].target : k \in {j \in 1..Len(w.connections) :
                      w.connections[j].source \in S}}
             \cup {w.connections[k].source : k \in {j \in 1..Len(w.connections) :
                      w.connections[j].target \in S}}
  IN  IF N = S THEN S ELSE Component(w, N)

\* the enabled blocks whose parameters reference a disabled block
DisabledDependents ==
  {i \in 1..Len(wf.blocks) :
     /\ wf.blocks[i].enabled
     /\ \E r \in Range(wf.blocks[i].refs) :
          HasBlock(wf, r) /\ ~FindBlock(wf, r).enabled}

\* C11: when an enabled block references a disabled block, the run, once it
\* has returned and settled without a failure of any other block, has failed
\* with the disabled-dependency error raised by a dispatch of that block, and
\* every enabled block not linked to the dependent block or to a disabled
\* block has been dispatched
C11_DisabledDependencyFails ==
  (pc = "returned" /\ inflight = <<>>) =>
    \A i \in DisabledDependents :
      LET b == wf.blocks[i].id
          off == {id \in BlockIds(wf) : ~FindBlock(wf, id).enabled}
      IN  (\A j \in 1..Len(dispatches) :
             dispatches[j].outcome = "raised" => dispatches[j].block = b) =>
          /\ ~result.success
          /\ result.error[1] = "Block is disabled, and a block depends on it: "
          /\ \E j \in DispatchIndexes(b) : dispatches[j].outcome = "raised"
          /\ \A u \in BlockIds(wf) \ Component(wf, {b} \cup off) :
               DispatchCount(u) >= 1

\* C12: a block with enabled = false is never dispatched: the run makes no
\* dispatch attempt for it, appends no log entry for it and never writes
\* blockStates for it
C12_DisabledNeverDispatched ==
  \A i \in 1..Len(wf.blocks) :
    ~wf.blocks[i].enabled =>
      LET d == wf.blocks[i].id
      IN  /\ DispatchCount(d) = 0
          /\ \A k \in 1..Len(inflight) : inflight[k].block # d
          /\ \A k \in 1..Len(blockLogs) : blockLogs[k].blockId # d
          /\ blockStates[d] = NoState

\* a loop reset has queued the disabled block of a loop again, after a layer
\* that held it already has run without it
C12_Witness ==
  /\ pc = "ready"
  /\ \E l \in DOMAIN wf.loops : loopIterations[l] = MAX_ITERATIONS
  /\ \E k \in 1..Len(queue) :
       /\ HasBlock(wf, queue[k])
       /\ ~FindBlock(wf, queue[k]).enabled
       /\ InSomeLoop(wf, queue[k])
  /\ Len(dispatches) >= 3

\* the log entries of block id
LogIndexes(id) == {k \in 1..Len(blockLogs) : blockLogs[k].blockId = id}

\* C13: blockLogs is 1:1 with the dispatch attempts: once every dispatch has
\* settled, each block has as many log entries as dispatch attempts, and a
\* block whose dispatch raised has a log entry with success = false and an
\* error message
C13_LogsMatchAttempts ==
  (inflight = <<>> /\ Len(dispatches) < MaxLog) =>
    /\ \A id \in BlockIds(wf) : Cardinality(LogIndexes(id)) = DispatchCount(id)
    /\ \A j \in 1..Len(dispatches) :
         dispatches[j].outcome = "raised" =>
           \E k \in LogIndexes(dispatches[j].block) :
             ~blockLogs[k].success /\ blockLogs[k].error # NoError

\* C14: the entries of blockLogs are in the order of their start times
C14_LogsOrderedByStart ==
  \A k \in 1..(Len(blockLogs) - 1) :
    blockLogs[k].startedAt <= blockLogs[k + 1].startedAt

\* the enabled blocks with no counted incoming connection
EnabledRoots ==
  {wf.blocks[i].id : i \in {j \in 1..Len(wf.blocks) :
     wf.blocks[j].enabled /\ InitialInDegree(wf)[wf.blocks[j].id] = 0}}

C16_OutputOfLastDispatched ==
  (pc = "returned" /\ result.success /\ Len(dispatches) < MaxLog) =>
    result.output = IF dispatches = <<>> THEN EmptyResponse
                    ELSE blockStates[dispatches[Len(dispatches)].block]

\* the condition blocks that have been dispatched, their source having an
\* output
EvaluatedConditionBlocks ==
  {c \in BlockIds(wf) :
     /\ TypeOf(wf, c) = "condition"
     /\ DispatchCount(c) >= 1
     /\ FirstSourceOf(wf, c) # NoBlock
     /\ blockStates[FirstSourceOf(wf, c)] # NoState}

\* the first condition in list order that matches: an 'if' / 'else if' whose
\* expression is truthy, or an 'else'; NoCond when none matches or when an
\* expression before the match throws
RECURSIVE FirstMatch(_, _)
FirstMatch(conditions, sourceOutput) ==
  IF conditions = <<>> THEN NoCond
  ELSE LET c == Head(conditions)
           v == EvalCondition(c.value, sourceOutput)
       IN  IF v = "throw" THEN NoCond
           ELSE IF (c.title \in {"if", "else if"} /\ v = "true") \/ c.title = "else"
           THEN c.id
           ELSE FirstMatch(Tail(conditions), sourceOutput)

\* C17: when the first matching condition of a condition block has no
\* outgoing connection tagged with its id, the dispatch of the block fails:
\* no condition is selected and no output is stored for the block
C17_UnwiredMatchFails ==
  \A c \in EvaluatedConditionBlocks :
    LET m == FirstMatch(FindBlock(wf, c).conditions, blockStates[FirstSourceOf(wf, c)])
    IN  (m # NoCond /\ BranchOf(OutgoingConns(wf, c), m) = 0) =>
          /\ activeConditionalPaths[c] = NoCond
          /\ blockStates[c] = NoState
          /\ \A j \in DispatchIndexes(c) : dispatches[j].outcome = "raised"

\* C18: a condition block selects the first condition in list order that is
\* an 'if' / 'else if' with a truthy expression or an 'else', and evaluates
\* no condition after it; when no condition matches, the block fails with
\* 'No matching path found' and the run returns success = false
C18_FirstMatchSelected ==
  \A c \in EvaluatedConditionBlocks :
    LET conds == FindBlock(wf, c).conditions
        so == blockStates[FirstSourceOf(wf, c)]
        m == FirstMatch(conds, so)
        sel == ScanConditions(conds, OutgoingConns(wf, c), so)
    IN  /\ activeConditionalPaths[c] # NoCond =>
             /\ activeConditionalPaths[c] = m
             /\ \E i \in 1..Len(conds) : conds[i].id = m /\ sel.evaluated = i
        /\ (m = NoCond /\ \A i \in 1..Len(conds) :
                             EvalCondition(conds[i].value, so) # "throw") =>
             /\ \E k \in LogIndexes(c) :
                  /\ ~blockLogs[k].success
                  /\ blockLogs[k].error[1] = "No matching path found for condition block "
             /\ pc = "returned"
             /\ ~result.success

\* the targets of the connections of r that are not blocks of the workflow
AbsentTargets(r) == {t \in DecisionTargets(wf, r) : ~HasBlock(wf, t)}

\* the routers with an outgoing connection to a block that is not in the
\* workflow
RoutersMissingTarget ==
  {r \in BlockIds(wf) : TypeOf(wf, r) = "router" /\ AbsentTargets(r) # {}}

\* C19: the dispatch of a router with a connection to a missing block fails
\* with 'Target block <id> not found', and no provider request is pending or
\* answered for it
C19_MissingTargetFailsBeforeRequest ==
  \A r \in RoutersMissingTarget :
    /\ \A k \in 1..Len(inflight) : inflight[k].block # r
    /\ routerDecisions[r] = NoBlock
    /\ \A j \in DispatchIndexes(r) :
         /\ dispatches[j].outcome = "raised"
         /\ \E k \in LogIndexes(r) :
              /\ ~blockLogs[k].success
              /\ blockLogs[k].error[1] = "Target block not found: "
              /\ blockLogs[k].error[2] \in AbsentTargets(r)

\* such a router has been dispatched and the run has returned its failure
C19_Witness ==
  /\ pc = "returned"
  /\ ~result.success
  /\ \E r \in RoutersMissingTarget :
       /\ DispatchCount(r) = 1
       /\ result.error[1] = "Target block not found: "
       /\ result.error[2] \in AbsentTargets(r)
       /\ LogIndexes(r) # {}

\* C20: when a router's inputs give no model and no temperature, the provider
\* is resolved for 'gpt-4o' and the request is sent with model 'gpt-4o' and
\* temperature 0
C20_RouterDefaults ==
  \A k \in 1..Len(inflight) :
    LET block == FindBlock(wf, inflight[k].block)
    IN  (block.type = "router" /\ block.model = Undefined
           /\ block.temperature = Undefined) =>
          /\ inflight[k].request.providerFor = <<"gpt-4o">>
          /\ inflight[k].request.model = <<"gpt-4o">>
          /\ inflight[k].request.temperature = <<0>>

\* the dispatches in flight whose block has a parameter that is exactly a
\* reference to a stored string
ReferenceDispatches ==
  {i \in 1..Len(inflight) :
     /\ FindBlock(wf, inflight[i].block).param # Undefined
     /\ blockStates[FindBlock(wf, inflight[i].block).param[1].source].value # Undefined}

\* the string a dispatch in flight refers to
StoredText(i) == blockStates[FindBlock(wf, inflight[i].block).param[1].source].value[1]

\* C21: a parameter that is exactly a block reference to a stored string
\* resolves to that string unchanged, with no JSON quoting
C21_ReferenceResolvesToStoredString ==
  \A i \in ReferenceDispatches :
    inflight[i].inputs = [type |-> "string", text |-> StoredText(i)]

\* this step is the start of an execute call
ExecuteCalled == (pc = "idle" /\ pc' # "idle") \/ (other = <<>> /\ other' # <<>>)

\* this step hands the event loop from one execute call to the other
Switched == other # <<>> /\ other' = <<Run>>

GraphBuilt == pc = "ready" /\ dispatches = <<>>

\* the target of the connection is a block whose parameters refer to the source
TargetRefersToSource(conn) ==
  \E i \in 1..Len(wf.blocks) :
    /\ wf.blocks[i].id = conn.target
    /\ \E k \in 1..Len(wf.blocks[i].refs) : wf.blocks[i].refs[k] = conn.source

\* the target of the connection is a block of the workflow and the source a
\* block of one of the types
DecisionEdge(conn, types) ==
  /\ \E i \in 1..Len(wf.blocks) : wf.blocks[i].id = conn.target
  /\ \E i \in 1..Len(wf.blocks) :
       wf.blocks[i].id = conn.source /\ wf.blocks[i].type \in types

\* the connections into id, those with a condition marker and the decision
\* edges from a source of these types to a target that does not refer to the
\* source apart
ConnectionsCounted(id, types) ==
  {i \in 1..Len(wf.connections) :
     /\ wf.connections[i].target = id
     /\ ~wf.connections[i].condition
     /\ ~(DecisionEdge(wf.connections[i], types)
            /\ ~TargetRefersToSource(wf.connections[i]))}

\* C23 as stated: a connection is counted toward the in-degree of its target
\* unless it carries a condition marker or its source is an evaluator or a
\* router and the parameters of the target do not refer to the source
C23_RouterEdgesLikeEvaluatorEdges ==
  GraphBuilt =>
    \A id \in BlockIds(wf) :
      inDegree[id] = Cardinality(ConnectionsCounted(id, {"evaluator", "router"}))

\* C23 amended: a connection is counted toward the in-degree of its target
\* unless it carries a condition marker or its source is an evaluator and
\* the parameters of the target do not refer to the source; a connection
\* from a router without marker is always counted
C23_OnlyEvaluatorEdgesTested ==
  GraphBuilt =>
    \A id \in BlockIds(wf) :
      inDegree[id] = Cardinality(ConnectionsCounted(id, {"evaluator"}))

\* a graph with a counted connection from a router to a target that does
\* not refer to it
C23_Witness ==
  /\ GraphBuilt
  /\ \E i \in 1..Len(wf.connections) :
       /\ DecisionEdge(wf.connections[i], {"router"})
       /\ ~wf.connections[i].condition
       /\ ~TargetRefersToSource(wf.connections[i])
       /\ inDegree[wf.connections[i].target] = 1

\* the sources whose decision the block waits for: the evaluators with a
\* connection to it, and the sources of its connections with a condition marker
DecisionSources(id) ==
  {wf.connections[k].source : k \in {j \in 1..Len(wf.connections) :
      /\ wf.connections[j].target = id
      /\ wf.connections[j].source # id
      /\ \/ wf.connections[j].condition
         \/ \E i \in 1..Len(wf.blocks) :
              /\ wf.blocks[i].id = wf.connections[j].source
              /\ wf.blocks[i].type = "evaluator"}}

\* C24: an immediate target of an evaluator, or of a connection with a
\* condition marker, is not dispatched before that source has been dispatched
\* and has recorded its decision, counted edge or not
C24_TargetWaitsForDecision ==
  \A i \in 1..Len(dispatches) :
    \A src \in DecisionSources(dispatches[i].block) :
      CompletedBefore(src, dispatches[i].at)

\* the target the router or evaluator d has recorded, NoBlock if none
Chosen(d) ==
  IF routerDecisions[d] # NoBlock THEN routerDecisions[d] ELSE evaluatorDecisions[d]

\* the block is an enabled block of the workflow
EnabledBlock(id) ==
  \E i \in 1..Len(wf.blocks) : wf.blocks[i].id = id /\ wf.blocks[i].enabled

\* C25: when a router or an evaluator has selected an enabled target whose
\* other counted connections are satisfied, the target is dispatched after
\* the decision, also when the deciding block is downstream of the target
\* another router or evaluator has chosen
C25_ChosenTargetIsDispatched ==
  (pc = "returned" /\ result.success /\ Len(dispatches) < MaxLog) =>
    \A d \in BlockIds(wf) :
      (/\ Chosen(d) # NoBlock
       /\ EnabledBlock(Chosen(d))
       /\ \A k \in ConnectionsCounted(Chosen(d), {"evaluator"}) :
            wf.connections[k].source # d => ConnectionSatisfied(k))
        => \E i \in DispatchIndexes(Chosen(d)) : CompletedBefore(d, dispatches[i].at)

\* the blocks of S and the blocks reachable from them along connections
RECURSIVE Downstream(_)
Downstream(S) ==
  LET N == S \cup {wf.connections[k].target : k \in {j \in 1..Len(wf.connections) :
                     wf.connections[j].source \in S}}
  IN  IF N = S THEN S ELSE Downstream(N)

\* the routers and evaluators with a recorded decision
Decided == {d \in BlockIds(wf) : Chosen(d) # NoBlock}

\* C26: a recorded decision excludes only blocks on an unchosen branch of
\* it: an enabled block that is not reachable from any deciding block and
\* whose counted connections are all satisfied is dispatched
C26_IndependentBranchStillRuns ==
  (pc = "returned" /\ result.success /\ Len(dispatches) < MaxLog /\ Decided # {}) =>
    \A b \in BlockIds(wf) \ Downstream(Decided) :
      (/\ EnabledBlock(b)
       /\ \A k \in ConnectionsCounted(b, {"evaluator"}) : ConnectionSatisfied(k))
        => DispatchCount(b) > 0

\* the immediate targets of the router r other than the one it has chosen
UnchosenTargets(r) ==
  {wf.connections[k].target : k \in {j \in 1..Len(wf.connections) :
      wf.connections[j].source = r /\ wf.connections[j].target # routerDecisions[r]}}

\* the routers of the workflow with a recorded decision
DecidedRouters ==
  {r \in BlockIds(wf) :
     /\ routerDecisions[r] # NoBlock
     /\ \E i \in 1..Len(wf.blocks) : wf.blocks[i].id = r /\ wf.blocks[i].type = "router"}

\* C27: after a router has recorded its decision none of its immediate
\* targets other than the chosen one is dispatched; in a workflow without
\* loops such a target is not dispatched at any time of the run
C27_UnchosenTargetsNotDispatched ==
  \A r \in DecidedRouters :
    \A t \in UnchosenTargets(r) :
      /\ \A i \in DispatchIndexes(t) : ~CompletedBefore(r, dispatches[i].at)
      /\ DOMAIN wf.loops = {} => DispatchCount(t) = 0

\* the targets of the connections that leave d
ImmediateTargets(d) ==
  {wf.connections[k].target : k \in {j \in 1..Len(wf.connections) :
      wf.connections[j].source = d}}

\* d is a block of this type
BlockOfType(d, type) ==
  \E i \in 1..Len(wf.blocks) : wf.blocks[i].id = d /\ wf.blocks[i].type = type

\* a dispatch of d has succeeded
DispatchedSuccessfully(d) ==
  \E i \in 1..Len(dispatches) : dispatches[i].block = d /\ dispatches[i].outcome = "ok"

\* in this step a dispatch of d fails
DispatchFails(d) ==
  \E i \in 1..Len(dispatches') :
    /\ dispatches'[i].block = d
    /\ dispatches'[i].outcome = "raised"
    /\ i <= Len(dispatches) => dispatches[i].outcome # "raised"

\* the entries of the two decision maps are sound
DecisionsSound ==
  \A d \in DOMAIN routerDecisions :
    /\ routerDecisions[d] # NoBlock =>
         /\ BlockOfType(d, "router")
         /\ DispatchedSuccessfully(d)
         /\ routerDecisions[d] \in ImmediateTargets(d)
    /\ evaluatorDecisions[d] # NoBlock =>
         /\ BlockOfType(d, "evaluator")
         /\ DispatchedSuccessfully(d)
         /\ evaluatorDecisions[d] \in ImmediateTargets(d)

\* C28: each entry of the router and of the evaluator decision map is keyed
\* by a router / evaluator that has been dispatched successfully and holds a
\* target of one of its outgoing connections; a decision dispatch that fails
\* records nothing
C28_DecisionEntriesAreSound ==
  [][/\ DecisionsSound'
     /\ \A d \in BlockIds(wf) :
          (Len(dispatches) < MaxLog /\ DispatchFails(d)) =>
            /\ routerDecisions'[d] = routerDecisions[d]
            /\ evaluatorDecisions'[d] = evaluatorDecisions[d]]_vars

\* one router has recorded its decision and the dispatch of another, further
\* down, has failed and left no entry
C28_Witness ==
  \E d1, d2 \in BlockIds(wf) :
    /\ routerDecisions[d1] # NoBlock
    /\ BlockOfType(d2, "router")
    /\ \E i \in 1..Len(dispatches) :
         dispatches[i].block = d2 /\ dispatches[i].outcome = "raised"
    /\ routerDecisions[d2] = NoBlock

\* the blocks of the loop
LoopNodes(l) == {wf.loops[l][i] : i \in 1..Len(wf.loops[l])}

\* the number of connections into b from blocks of the loop
InternalDegree(l, b) ==
  Cardinality({k \in 1..Len(wf.connections) :
                 /\ wf.connections[k].target = b
                 /\ wf.connections[k].source \in LoopNodes(l)})

\* an evaluator of the loop is in the layer that has finished and its recorded
\* choice is a block of the loop
EvaluatorChoseLoopBlock(l) ==
  \E i \in 1..Len(currentLayer) :
    /\ currentLayer[i] \in LoopNodes(l)
    /\ BlockOfType(currentLayer[i], "evaluator")
    /\ evaluatorDecisions[currentLayer[i]] \in LoopNodes(l)

\* C29: the iteration counter of a loop starts at 0, never decreases, never
\* exceeds MAX_ITERATIONS, and changes only by one, and with the in-degrees
\* of the loop's blocks reset, after a layer in which an evaluator of the
\* loop has finished with a block of the loop as its recorded choice while the
\* counter was below MAX_ITERATIONS
C29_LoopCounter ==
  [][\A l \in DOMAIN wf.loops :
       /\ pc = "idle" => loopIterations'[l] = 0
       /\ loopIterations'[l] >= loopIterations[l]
       /\ loopIterations'[l] <= MAX_ITERATIONS
       /\ loopIterations'[l] # loopIterations[l] =>
            /\ loopIterations'[l] = loopIterations[l] + 1
            /\ loopIterations[l] < MAX_ITERATIONS
            /\ pc = "awaiting" /\ pc' = "ready"
            /\ EvaluatorChoseLoopBlock(l)
            /\ \A b \in LoopNodes(l) : inDegree'[b] = InternalDegree(l, b)]_vars

\* a loop that has been reset MAX_ITERATIONS times
C29_Witness ==
  \E l \in DOMAIN wf.loops : loopIterations[l] = MAX_ITERATIONS

\* the blocks with a connection from a block of the layer that has finished
FedByLayer ==
  {wf.connections[k].target : k \in {j \in 1..Len(wf.connections) :
      \E i \in 1..Len(currentLayer) : wf.connections[j].source = currentLayer[i]}}

\* the blocks in the queue after the step
Enqueued == {queue'[i] : i \in 1..Len(queue')}

\* C30: right after a loop reset the in-degree of every block of the loop is
\* the number of connections into it from blocks of the loop, whatever it
\* was before, and the reset enqueues exactly the loop blocks whose
\* recomputed in-degree is 0 (a loop block of another in-degree is in the
\* queue only if a connection from the finished layer put it there)
C30_LoopResetRecomputesDegrees ==
  [][\A l \in DOMAIN wf.loops :
       loopIterations'[l] = loopIterations[l] + 1 =>
         \A b \in LoopNodes(l) :
           /\ inDegree'[b] = InternalDegree(l, b)
           /\ InternalDegree(l, b) = 0 => b \in Enqueued
           /\ (InternalDegree(l, b) # 0 /\ b \in Enqueued) => b \in FedByLayer]_vars

\* after a reset: a loop block entered from outside the loop, its in-degree
\* recomputed to 0, is in the queue again
C30_Witness ==
  /\ pc = "ready"
  /\ \E l \in DOMAIN wf.loops :
       /\ loopIterations[l] >= 1
       /\ \E b \in LoopNodes(l) :
            /\ \E k \in 1..Len(wf.connections) :
                 wf.connections[k].target = b /\ wf.connections[k].source \notin LoopNodes(l)
            /\ InternalDegree(l, b) = 0
            /\ inDegree[b] = 0
            /\ b \in {queue[i] : i \in 1..Len(queue)}
            /\ \E i \in 1..Len(dispatches) : dispatches[i].block = b

\* the blocks of S and the blocks reached from them along connections whose
\* source is neither a router nor an evaluator
RECURSIVE ReachedPast(_)
ReachedPast(S) ==
  LET N == S \cup {wf.connections[k].target : k \in {j \in 1..Len(wf.connections) :
                     /\ wf.connections[j].source \in S
                     /\ ~BlockOfType(wf.connections[j].source, "router")
                     /\ ~BlockOfType(wf.connections[j].source, "evaluator")}}
  IN  IF N = S THEN S ELSE ReachedPast(N)

\* C31: isInChosenPath returns true when the candidate is the decision block
\* and otherwise exactly when the candidate is reached from the chosen target
\* along connections whose source is not a router or an evaluator, the chosen
\* target counting as reached; it returns on every graph, cyclic or not
C31_IsInChosenPathIsReachability ==
  inChosenPath # <<>> =>
    inChosenPath[1].returned =
      (\/ inChosenPath[1].blockId = inChosenPath[1].decisionBlockId
       \/ inChosenPath[1].blockId \in ReachedPast({inChosenPath[1].chosenBlockId}))

\* a call on a graph with a cycle through the chosen target that returned
\* false because the only way to the candidate leaves a router
C31_Witness ==
  /\ inChosenPath # <<>>
  /\ ~inChosenPath[1].returned
  /\ inChosenPath[1].chosenBlockId = "c"
  /\ inChosenPath[1].blockId = "b"
  /\ BlockOfType("a", "router")
  /\ \E i, j, k \in 1..Len(wf.connections) :
       /\ wf.connections[i] = Conn("c", "a")
       /\ wf.connections[j] = Conn("a", "c")
       /\ wf.connections[k] = Conn("a", "b")

\* in this step a dispatch of b starts, runs or settles
DispatchActs(b) ==
  \E i \in 1..Len(dispatches') :
    /\ dispatches'[i].block = b
    /\ i <= Len(dispatches) => dispatches[i].outcome # dispatches'[i].outcome

\* in this step a dispatch of b succeeds
DispatchSucceeds(b) ==
  \E i \in 1..Len(dispatches') :
    /\ dispatches'[i].block = b
    /\ dispatches'[i].outcome = "ok"
    /\ i <= Len(dispatches) => dispatches[i].outcome # "ok"

\* the run is going on and the history has room
Running == pc \in {"ready", "awaiting", "returned"} /\ Len(dispatches') < MaxLog

\* C32: a dispatch of block b changes the shared state of the run only by
\* writing blockStates[b] and appending to blockLogs: the state of a block
\* changes only in a step of a dispatch of that block, and the entries
\* blockLogs holds are neither modified nor removed
C32_DispatchWritesOwnStateOnly ==
  [][Running =>
       /\ \A c \in DOMAIN blockStates :
            blockStates'[c] # blockStates[c] => DispatchActs(c)
       /\ Len(blockLogs') >= Len(blockLogs)
       /\ \A k \in 1..Len(blockLogs) : blockLogs'[k] = blockLogs[k]]_vars

\* a router has written its own state, which names its target, and the
\* target has no state yet
C32_Witness ==
  \E r \in BlockIds(wf) :
    /\ blockStates[r].kind = "selectedPath"
    /\ blockStates[r].blockId \in BlockIds(wf)
    /\ blockStates[blockStates[r].blockId] = NoState
    /\ blockLogs # <<>>

\* C33: a dispatch that fails leaves blockStates[block.id] as it was, absent,
\* pre-populated or written by an earlier iteration; blockStates[block.id]
\* is written only by a dispatch of the block that succeeds
C33_FailureLeavesStateUntouched ==
  [][Running =>
       \A b \in DOMAIN blockStates :
         /\ (DispatchFails(b) /\ ~DispatchSucceeds(b)) => blockStates'[b] = blockStates[b]
         /\ blockStates'[b] # blockStates[b] => DispatchSucceeds(b)]_vars

\* a block whose state was pre-populated or written before has failed and
\* still has that state
C33_Witness ==
  \E b \in BlockIds(wf) :
    /\ blockStates[b] # NoState
    /\ Len(dispatches) < MaxLog
    /\ \E i \in 1..Len(dispatches) :
         dispatches[i].block = b /\ dispatches[i].outcome = "raised"
    /\ \/ ~\E i \in 1..Len(dispatches) :
            dispatches[i].block = b /\ dispatches[i].outcome = "ok"
       \/ \E l \in DOMAIN wf.loops : loopIterations[l] >= 1

\* the block is dispatched to a registered tool: it is enabled and is no
\* router, evaluator, condition or agent
RegularBlock(b) ==
  /\ FindBlock(wf, b).enabled
  /\ FindBlock(wf, b).type \notin {"router", "evaluator", "condition", "agent"}

\* the dispatches of b this step starts
NewDispatchesOf(b) ==
  {i \in (Len(dispatches) + 1)..Len(dispatches') : dispatches'[i].block = b}

\* the log entries of b this step appends
NewLogsOf(b) ==
  {k \in (Len(blockLogs) + 1)..Len(blockLogs') : blockLogs'[k].blockId = b}

\* the errors a tool invocation of b can return
ToolErrors(b) == {o.error : o \in Outcomes(wf, FindBlock(wf, b))} \ {NoError}

\* C34: for a block that is no router, evaluator, condition or agent and
\* whose inputs resolved, (a) when no tool is registered under its name the
\* dispatch fails and no tool invocation is ever in flight for it, (b) when
\* the tool invocation returns success = false the dispatch fails with the
\* error of the tool; in both cases exactly one log entry with
\* success = false is appended for the block and the run has returned
\* success = false
C34_ToolFailureFailsTheDispatch ==
  [][Running =>
       \A b \in BlockIds(wf) :
         RegularBlock(b) =>
           /\ ( /\ ~FindBlock(wf, b).toolKnown
                /\ ResolveInputsError(wf, FindBlock(wf, b), blockStates) = NoError
                /\ NewDispatchesOf(b) # {} ) =>
                /\ Cardinality(NewDispatchesOf(b)) = 1
                /\ \A i \in NewDispatchesOf(b) : dispatches'[i].outcome = "raised"
                /\ \A i \in 1..Len(inflight') : inflight'[i].block # b
                /\ Cardinality(NewLogsOf(b)) = 1
                /\ \A k \in NewLogsOf(b) :
                     /\ ~blockLogs'[k].success
                     /\ blockLogs'[k].error = Error("Tool not found: ", b)
                /\ pc' = "returned" /\ ~result'.success
           /\ ( /\ \E i \in 1..Len(inflight) : inflight[i].block = b
                /\ DispatchFails(b) ) =>
                /\ Cardinality(NewLogsOf(b)) = 1
                /\ \A k \in NewLogsOf(b) :
                     /\ ~blockLogs'[k].success
                     /\ blockLogs'[k].error \in ToolErrors(b)
                     /\ pc = "awaiting" => result'.error = blockLogs'[k].error
                /\ pc' = "returned" /\ ~result'.success]_vars

\* one run has failed on a block without a registered tool and another on
\* a tool that returned success = false, each with its failure log entry
C34_Witness ==
  /\ pc = "returned" /\ ~result.success
  /\ Len(dispatches) < MaxLog
  /\ \E k \in 1..Len(blockLogs) :
       /\ RegularBlock(blockLogs[k].blockId)
       /\ ~blockLogs[k].success
       /\ \/ /\ ~FindBlock(wf, blockLogs[k].blockId).toolKnown
             /\ blockLogs[k].error = Error("Tool not found: ", blockLogs[k].blockId)
          \/ /\ FindBlock(wf, blockLogs[k].blockId).toolKnown
             /\ blockLogs[k].error = Error("tool error", "")
             /\ result.error = Error("tool error", "")

\* C35: once execute has returned, the blockLogs sequence the returned
\* result carries and the blockStates of the run are never modified again
C35_ReturnedResultIsFinal ==
  [][(pc = "returned" /\ Len(dispatches') < MaxLog) =>
       /\ result'.logs = result.logs
       /\ blockStates' = blockStates]_vars

\* C36: within one layer every block id is dispatched at most once: the
\* ready queue and the layer taken from it never hold the same block id
\* twice, and no two dispatches of one layer are of the same block
C36_NoBlockTwiceInALayer ==
  /\ \A i, j \in 1..Len(queue) : queue[i] = queue[j] => i = j
  /\ \A i, j \in 1..Len(currentLayer) : currentLayer[i] = currentLayer[j] => i = j
  /\ Len(dispatches) < MaxLog =>
       \A i, j \in 1..Len(dispatches) :
         (dispatches[i].block = dispatches[j].block
            /\ dispatches[i].layer = dispatches[j].layer) => i = j

\* C37: in every reachable state of a run inDegree[b] >= 0 for every block
\* b: a connection that was not counted when the graph was built never
\* decrements the in-degree of its target
C37_InDegreeNeverNegative ==
  \A b \in DOMAIN inDegree : inDegree[b] >= 0

\* C38: in a workflow that declares no loops, with or without router,
\* evaluator and condition blocks, every block is dispatched at most once
\* per run
C38_NoLoopsDispatchOnce ==
  (DOMAIN wf.loops = {} /\ Len(dispatches) < MaxLog) =>
    \A i, j \in 1..Len(dispatches) :
      dispatches[i].block = dispatches[j].block => i = j

\* a run of a workflow without loops has returned success after a router,
\* an evaluator or a condition block selected a target that was dispatched
C38_Witness ==
  /\ DOMAIN wf.loops = {}
  /\ pc = "returned" /\ result.success
  /\ Len(dispatches) < MaxLog
  /\ \E i, j \in 1..Len(dispatches) :
       /\ i < j
       /\ FindBlock(wf, dispatches[i].block).type \in {"router", "evaluator", "condition"}
       /\ dispatches[i].outcome = "ok" /\ dispatches[j].outcome = "ok"
       /\ \E k \in 1..Len(wf.connections) :
            /\ wf.connections[k].source = dispatches[i].block
            /\ wf.connections[k].target = dispatches[j].block

\* the ids of the MCP servers of the store
ServerIdsOfStore == {mcpServers[i].id : i \in 1..Len(mcpServers)}

\* C39: in the agent-builder store, after any sequence of addAgent,
\* addMcpServer, addMcpServerToAgent, removeMcpServerFromAgent,
\* deleteMcpServer and deleteAgent, every id in the mcpServerIds of an agent
\* is the id of an MCP server of the store and occurs once, mcpServerIds is
\* never an empty array, and a second addMcpServerToAgent with the
\* arguments of the call before it leaves the store as it is
C39_ServerIdsAreConsistent ==
  /\ [](\A i \in 1..Len(agents) :
          LET m == agents[i].config.mcpServerIds
          IN  /\ \A k \in 1..Len(m.ids) : m.ids[k] \in ServerIdsOfStore
              /\ \A k, l \in 1..Len(m.ids) : m.ids[k] = m.ids[l] => k = l
              /\ m.defined => m.ids # <<>>)
  /\ [][(/\ lastCall # <<>>
         /\ lastCall[1] = "addMcpServerToAgent"
         /\ lastCall' = lastCall)
          => (agents' = agents /\ mcpServers' = mcpServers)]_vars

\* addMcpServerToAgent(1, 2) has added server 2 to the agent that used
\* server 3
C39_Witness ==
  /\ lastCall = <<"addMcpServerToAgent", 1, 2>>
  /\ Len(agents) = 1
  /\ agents[1].id = 1
  /\ agents[1].config.mcpServerIds = ServerIds(<<3, 2>>)

\* C40: the tool-call loop of the chat POST handler performs at most 10
\* rounds, at most 11 model completions per request, whatever the model
\* returns; a tool call that throws or is unsuccessful never ends the
\* request; and once the client was created and the first completion was
\* attempted, the client has been disconnected when the handler has
\* returned its response
C40_ChatLoopIsBoundedAndCleansUp ==
  /\ [](/\ chat.iterationCount <= 10
        /\ chat.completions <= 11
        /\ (chat.pc = "responded" /\ chat.created /\ chat.completions >= 1) =>
             (chat.disconnects >= 1 /\ ~chat.isConnected))
  /\ [][chat.pc = "tools" =>
          /\ chat'.pc \in {"tools", "completing"}
          /\ chat'.status = 0
          /\ chat'.disconnects = 0]_vars

\* the handler has responded after ten rounds, the eleventh completion
\* still asked for tools, and tool calls of the request threw or failed
C40_Witness ==
  /\ chat.pc = "responded"
  /\ chat.status = 200
  /\ chat.completions = 11
  /\ chat.iterationCount = 10
  /\ chat.toolCallsInResponse # <<>>
  /\ chat.toolCalls >= 1
  /\ chat.lastToolCall \in {"threw", "unsuccessful"}
====
